---------------------------- MODULE Spec2Model ----------------------------
(***************************************************************************)
(* Model of the analytics aggregation layer of the sales dashboard:        *)
(* time bucketing and the net-margin assembler (lib/api/metrics/           *)
(* netMargin.ts), partner-name canonicalisation (lib/api/analytics/        *)
(* topPartners.ts), the most-sold-products ranking, and the                *)
(* commercial-responsibles / dashboard-summary derivations.                *)
(*                                                                         *)
(* Instants are whole hours since 1970-01-01T00:00Z.  A JavaScript Date    *)
(* reads its calendar fields in the local time zone of the process, which  *)
(* is the variable tz (hours east of UTC), fixed for one run.              *)
(***************************************************************************)
EXTENDS Integers, Sequences, FiniteSets, TLC

VARIABLES
    tz,         \* local time zone of the process, hours east of UTC
    rgStart,    \* range enumerators: the start instant handed in
    rgEnd,      \* range enumerators: the end instant handed in
    rgKeys,     \* range enumerators: the three key sequences returned, or NoKeys
    now,        \* net margin: options.now, the reference instant of the request
    nmStore,    \* net margin: the rows of sales_transactions (the columns the assembler reads)
    rawRows,    \* net margin: what fetchNetMarginRows returned to the request
    nmPayload,  \* net margin: the payload returned, or NoPayload
    ptStore,    \* top partners: the fact rows (partner column, quantity, sales value)
    ptRaw,      \* top partners: topPartnersRaw, the rows of the aggregate query
    ptResult,   \* top partners: the bucket map and the ranked list, once built
    stFacts,    \* analytics: the rows of sales_transactions the two views below read
    msRaw,      \* most sold products: the rows of the ranking query
    msResult,   \* most sold products: the payload returned, or NoResult
    crRaw,      \* commercial responsibles: the aggregate rows and the period rows
    crResult,   \* commercial responsibles: the payload returned, or NoResult
    dlCurrent,  \* summary deltas: currentValue handed to the delta function
    dlPrevious, \* summary deltas: previousValue handed to the delta function
    dlResult,   \* summary deltas: the DeltaSummary returned, or NoResult
    smStore,    \* dashboard summary: the rows of sales_transactions it reads
    rq,         \* the request an endpoint is handling: its parameters, its phase, the
                \* options it validated, the queries issued so far (calls), whether
                \* the store rejected one (failed), and the status and body answered
    sbDate,     \* subMonths: the date handed in
    sbMonths,   \* subMonths: the number of months handed in
    sbResult,   \* subMonths: the date or the window starts returned, or NoResult
    nzFn,       \* normalizers: the normalizer an aggregator uses
    nzFallback, \* normalizers: the fallback of the caller
    nzSum,      \* normalizers: the sum of the aggregator
    nzCount,    \* normalizers: the number of cells added to the sum
    nzLast,     \* normalizers: the last value handed in and what was returned, or NoResult
    upTable,    \* uploads: the rows of sales_transactions, each with the upload it came from
    upCalls,    \* uploads: per caller, the call of processSalesUpload it is in or has left
    upStarted,  \* uploads: the number of calls started
    upLast,     \* uploads: the rows of the call whose replacement completed last
    chOrderType,    \* channels: the order type of a transaction
    chChannel,      \* channels: the sales channel asked for
    chPartners,     \* channels: whether the filter of top-partners keeps it, or "unasked"
    chResponsibles, \* channels: whether the filter of commercial-responsibles keeps it
    tpStore,    \* top partners with years: the fact rows
    tpLimit,    \* top partners with years: options.limit
    tpOrderBy,  \* top partners with years: options.orderBy
    tpResult,   \* top partners with years: the payload returned, or NoResult
    csFacts,    \* channel sums: the rows of sales_transactions
    csYear,     \* channel sums: the year filter of the three requests
    csPayloads, \* channel sums: per sales channel, the payload returned, or NoResult
    wgKind,     \* widgets: which analytics widget
    wgFilter,   \* widgets: the filter value the effect depends on
    wgRequests, \* widgets: the requests issued, in order, each with its flags
    wgDisplay   \* widgets: the request whose data is shown, whose error is shown, loading

varsRg == <<rgStart, rgEnd, rgKeys>>
varsNM == <<now, nmStore, rawRows, nmPayload>>
varsPt == <<ptStore, ptRaw, ptResult>>
varsAn == <<stFacts, msRaw, msResult, crRaw, crResult>>
varsDl == <<dlCurrent, dlPrevious, dlResult>>
varsRq == <<smStore, rq>>
varsSb == <<sbDate, sbMonths, sbResult>>
varsOld == <<tz, varsRg, varsNM, varsPt, varsAn, varsDl, varsRq>>
varsNz == <<nzFn, nzFallback, nzSum, nzCount, nzLast>>
varsUp == <<upTable, upCalls, upStarted, upLast>>
varsCh == <<chOrderType, chChannel, chPartners, chResponsibles>>
varsTp == <<tpStore, tpLimit, tpOrderBy, tpResult>>
varsCs == <<csFacts, csYear, csPayloads>>
varsWg == <<wgKind, wgFilter, wgRequests, wgDisplay>>
varsLater == <<varsSb, varsNz, varsUp, varsCh, varsTp, varsCs, varsWg>>
vars == <<tz, rgStart, rgEnd, rgKeys, now, nmStore, rawRows, nmPayload,
          ptStore, ptRaw, ptResult, stFacts, msRaw, msResult, crRaw, crResult,
          dlCurrent, dlPrevious, dlResult, smStore, rq, varsLater>>

-----------------------------------------------------------------------------
(* Generic helpers *)

Min2(a, b) == IF a <= b THEN a ELSE b
Max2(a, b) == IF a >= b THEN a ELSE b

SetMin(S) == CHOOSE x \in S : \A y \in S : x <= y
SetMax(S) == CHOOSE x \in S : \A y \in S : x >= y

\* The elements of S, all within lo..hi, in ascending order (by halving lo..hi).
RECURSIVE SortBetween(_, _, _)
SortBetween(S, lo, hi) ==
    IF S = {} THEN <<>>
    ELSE IF lo = hi THEN <<lo>>
    ELSE LET mid == (lo + hi) \div 2
         IN  SortBetween({x \in S : x <= mid}, lo, mid)
                \o SortBetween({x \in S : x > mid}, mid + 1, hi)

\* The ascending sequence of the elements of a finite set of numbers.
SortAsc(S) == IF S = {} THEN <<>> ELSE SortBetween(S, SetMin(S), SetMax(S))

RECURSIVE SumSeq(_, _)
SumSeq(s, i) == IF i > Len(s) THEN 0 ELSE s[i] + SumSeq(s, i + 1)

RECURSIVE SumOver(_, _)
SumOver(S, f) ==
    IF S = {} THEN 0
    ELSE LET x == CHOOSE e \in S : TRUE IN f[x] + SumOver(S \ {x}, f)

SeqRange(s) == {s[i] : i \in DOMAIN s}

-----------------------------------------------------------------------------
(* The calendar behind Date: proleptic Gregorian, days counted from         *)
(* 1970-01-01.                                                              *)

DaysFromCivil(y, m, d) ==
    LET yy  == IF m <= 2 THEN y - 1 ELSE y
        era == yy \div 400
        yoe == yy - era * 400
        mp  == IF m > 2 THEN m - 3 ELSE m + 9
        doy == (153 * mp + 2) \div 5 + d - 1
        doe == yoe * 365 + yoe \div 4 - yoe \div 100 + doy
    IN  era * 146097 + doe - 719468

\* The civil date of day z, in the steps of the day-count algorithm: the day
\* within its 400-year era, the year within the era, the day within the year
\* (counted from 1 March) and the month (counted from March).
YearOfEra(doe) == (doe - doe \div 1460 + doe \div 36524 - doe \div 146096) \div 365

DayOfYear(doe, yoe) == doe - (365 * yoe + yoe \div 4 - yoe \div 100)

CivilOfMonth(era, yoe, doy, mp) ==
    [year  |-> yoe + era * 400 + (IF mp >= 10 THEN 1 ELSE 0),
     month |-> IF mp < 10 THEN mp + 3 ELSE mp - 9,
     day   |-> doy - (153 * mp + 2) \div 5 + 1]

CivilOfDay(era, yoe, doy) == CivilOfMonth(era, yoe, doy, (5 * doy + 2) \div 153)

CivilOfYear(era, doe, yoe) == CivilOfDay(era, yoe, DayOfYear(doe, yoe))

CivilFromDays(z) ==
    CivilOfYear((z + 719468) \div 146097, (z + 719468) % 146097,
                YearOfEra((z + 719468) % 146097))

\* Date.prototype.getFullYear / getMonth (0-based) / getDate / getHours / getDay,
\* all read in local time.
LocalDay(t)    == (t + tz) \div 24
getHours(t)    == (t + tz) % 24
getFullYear(t) == CivilFromDays(LocalDay(t)).year
getMonth(t)    == CivilFromDays(LocalDay(t)).month - 1
getDate(t)     == CivilFromDays(LocalDay(t)).day
getDay(t)      == (LocalDay(t) + 4) % 7       \* 0 = Sunday; 1970-01-01 was a Thursday

\* new Date(year, monthIndex, day, hours) in local time; monthIndex and day may
\* lie outside their usual range and are carried over.
NewLocalDate(y, monthIndex, d, h) ==
    LET months == y * 12 + monthIndex
        yy     == months \div 12
        mm     == (months % 12) + 1
    IN  (DaysFromCivil(yy, mm, 1) + (d - 1)) * 24 + h - tz

\* date.setDate(n): same local month and time of day, day of month n.
SetDate(t, n) == NewLocalDate(getFullYear(t), getMonth(t), n, getHours(t))

\* date.setMonth(n): same local day of month and time of day, month index n.
SetMonth(t, n) == NewLocalDate(getFullYear(t), n, getDate(t), getHours(t))

\* date.setHours(0, 0, 0, 0)
SetHoursZero(t) == NewLocalDate(getFullYear(t), getMonth(t), getDate(t), 0)

-----------------------------------------------------------------------------
(* Period keys.  The code formats keys as zero-padded text, "YYYY-MM" and   *)
(* "YYYY-MM-DD"; a key is modelled by the number its digits spell, YYYYMM   *)
(* and YYYYMMDD, which orders as the text does.                             *)

monthKey(t) == getFullYear(t) * 100 + (getMonth(t) + 1)

dateKey(t) == getFullYear(t) * 10000 + (getMonth(t) + 1) * 100 + getDate(t)

\* new Date("YYYY-MM-DD"): a date-only ISO string is read as midnight UTC,
\* whatever the local zone.
ParseDateKey(k) ==
    DaysFromCivil(k \div 10000, (k \div 100) % 100, k % 100) * 24

\* The local midnight start moved by offset days.
ShiftDays(start, offset) == SetDate(start, getDate(start) + offset)

\* A variant without the case of Sunday, for comparison.
MondayOffsetOfWeekday(day) == 1 - day

\* offset = day === 0 ? -6 : 1 - day
MondayOffset(day) == IF day = 0 THEN -6 ELSE 1 - day

weekStartKey(t) == dateKey(ShiftDays(SetHoursZero(t), MondayOffset(getDay(t))))

\* new Date(target.getFullYear(), target.getMonth() + 1, 0).getDate()
LastDayOfMonth(target) ==
    getDate(NewLocalDate(getFullYear(target), getMonth(target) + 1, 0, 0))

\* A variant that sets the day without the minimum, for comparison.
SetDayUnclamped(target, day) == SetDate(target, day)

\* target.setDate(Math.min(day, lastDayOfTargetMonth))
ClampDay(target, day) == SetDate(target, Min2(day, LastDayOfMonth(target)))

subMonths(t, months) ==
    ClampDay(NewLocalDate(getFullYear(t), getMonth(t) - months, 1, getHours(t)), getDate(t))

RECURSIVE MonthLoop(_, _, _)
MonthLoop(cursor, last, keys) ==
    IF cursor <= last
    THEN MonthLoop(SetMonth(cursor, getMonth(cursor) + 1), last, Append(keys, monthKey(cursor)))
    ELSE keys

generateMonthRangeInclusive(start, end) ==
    MonthLoop(NewLocalDate(getFullYear(start), getMonth(start), 1, 0),
              NewLocalDate(getFullYear(end), getMonth(end), 1, 0), <<>>)

\* while (cursor <= last) { keys.push(dateKey(cursor)); cursor.setDate(cursor.getDate() + step) }
\* setDate moves the cursor by whole local days, so pass i of the loop sees
\* cursor + 24 * step * i; the passes are counted instead of unrolled.
DateLoop(cursor, last, step) ==
    LET passes == IF cursor <= last THEN (last - cursor) \div (24 * step) + 1 ELSE 0
    IN  [i \in 1..passes |-> dateKey(SetDate(cursor, getDate(cursor) + step * (i - 1)))]

generateDateRangeInclusive(start, end) ==
    DateLoop(NewLocalDate(getFullYear(start), getMonth(start), getDate(start), 0),
             NewLocalDate(getFullYear(end), getMonth(end), getDate(end), 0), 1)

generateWeekRangeInclusive(start, end) ==
    DateLoop(ParseDateKey(weekStartKey(start)),
             NewLocalDate(getFullYear(end), getMonth(end), getDate(end), 0), 7)

-----------------------------------------------------------------------------
(* Numeric normalizer.  A cell value as the driver hands it over is a       *)
(* record [kind, n]: null, a native number, a numeric string or a Decimal   *)
(* whose toNumber() yields n; the non-finite and throwing kinds carry no n. *)

Null          == [kind |-> "null", n |-> 0]
Number(n)     == [kind |-> "number", n |-> n]
Decimal(n)    == [kind |-> "decimal", n |-> n]

FiniteKinds == {"number", "bigint", "string", "decimal"}

toFiniteNumber(value, fallback) ==
    IF value.kind \in {"null", "undefined", "empty"} THEN fallback
    ELSE IF value.kind \in FiniteKinds THEN value.n
    ELSE fallback

-----------------------------------------------------------------------------
(* Net-margin assembler (lib/api/metrics/netMargin.ts).                     *)

\* All orderings of a finite set as sequences.
RECURSIVE Orderings(_)
Orderings(S) ==
    IF S = {} THEN {<<>>}
    ELSE UNION {{<<x>> \o rest : rest \in Orderings(S \ {x})} : x \in S}

\* findMany({where: {delivery_date: {gte: start12}}, orderBy: {delivery_date: "asc"}}):
\* the rows on or after start12 in ascending delivery order; rows delivered at the
\* same instant come in an order the store chooses.
fetchNetMarginRows(store, start12) ==
    {rows \in Orderings({r \in store : r.delivery_date >= start12}) :
        \A i \in 1..(Len(rows) - 1) : rows[i].delivery_date <= rows[i + 1].delivery_date}

RECURSIVE DedupLoop(_, _, _, _, _)
DedupLoop(rows, i, seenIds, duplicateIds, dedupedRows) ==
    IF i > Len(rows) THEN [dedupedRows |-> dedupedRows, duplicateIds |-> duplicateIds]
    ELSE IF rows[i].transaction_id \in seenIds
         THEN DedupLoop(rows, i + 1, seenIds,
                        Append(duplicateIds, rows[i].transaction_id), dedupedRows)
         ELSE DedupLoop(rows, i + 1, seenIds \cup {rows[i].transaction_id},
                        duplicateIds, Append(dedupedRows, rows[i]))

\* A deviating de-duplication: of the rows sharing an identifier the last one is kept.
deduplicateRowsKeepLast(rows) ==
    LET last == {i \in DOMAIN rows :
                    \A j \in (i + 1)..Len(rows) : rows[j].transaction_id # rows[i].transaction_id}
        F[i \in 0..Len(rows)] ==
            IF i = 0 THEN [dedupedRows |-> <<>>, duplicateIds |-> <<>>]
            ELSE IF i \in last
                 THEN [F[i - 1] EXCEPT !.dedupedRows = Append(@, rows[i])]
                 ELSE [F[i - 1] EXCEPT !.duplicateIds = Append(@, rows[i].transaction_id)]
    IN  F[Len(rows)]

deduplicateRows(rows) == DedupLoop(rows, 1, {}, <<>>, <<>>)

\* A deviating window test: the start of the window is left out.
withinRangeAfterStart(date, start, end) == date > start /\ date <= end

withinRange(date, start, end) == date >= start /\ date <= end

initSeries(keys) == [k \in SeqRange(keys) |-> 0]

\* series[key] = (series[key] ?? 0) + value
AddToSeries(series, key, value) ==
    IF key \in DOMAIN series
    THEN [series EXCEPT ![key] = @ + value]
    ELSE (key :> value) @@ series

\* One pass of the loop of aggregateRows: the row with its amounts, its window
\* tests and its three keys.
AddRow(acc, storedMargin, storedSales, in, mk, dk, wk) ==
    [sum12   |-> IF in.w12 THEN acc.sum12 + storedMargin ELSE acc.sum12,
     count12 |-> IF in.w12 THEN acc.count12 + 1 ELSE acc.count12,
     sum6    |-> IF in.w6 THEN acc.sum6 + storedMargin ELSE acc.sum6,
     count6  |-> IF in.w6 THEN acc.count6 + 1 ELSE acc.count6,
     sum3    |-> IF in.w3 THEN acc.sum3 + storedMargin ELSE acc.sum3,
     count3  |-> IF in.w3 THEN acc.count3 + 1 ELSE acc.count3,
     sum1    |-> IF in.w1 THEN acc.sum1 + storedMargin ELSE acc.sum1,
     count1  |-> IF in.w1 THEN acc.count1 + 1 ELSE acc.count1,
     monthlySeries      |-> AddToSeries(acc.monthlySeries, mk, storedMargin),
     monthlySalesSeries |-> AddToSeries(acc.monthlySalesSeries, mk, storedSales),
     dailySeries3m  |-> IF in.from3 THEN AddToSeries(acc.dailySeries3m, dk, storedMargin)
                                    ELSE acc.dailySeries3m,
     dailySales3m   |-> IF in.from3 THEN AddToSeries(acc.dailySales3m, dk, storedSales)
                                    ELSE acc.dailySales3m,
     weeklySeries3m |-> IF in.from3 THEN AddToSeries(acc.weeklySeries3m, wk, storedMargin)
                                    ELSE acc.weeklySeries3m,
     weeklySales3m  |-> IF in.from3 THEN AddToSeries(acc.weeklySales3m, wk, storedSales)
                                    ELSE acc.weeklySales3m,
     dailySeries1m  |-> IF in.from1 THEN AddToSeries(acc.dailySeries1m, dk, storedMargin)
                                    ELSE acc.dailySeries1m,
     dailySales1m   |-> IF in.from1 THEN AddToSeries(acc.dailySales1m, dk, storedSales)
                                    ELSE acc.dailySales1m,
     weeklySeries1m |-> IF in.from1 THEN AddToSeries(acc.weeklySeries1m, wk, storedMargin)
                                    ELSE acc.weeklySeries1m,
     weeklySales1m  |-> IF in.from1 THEN AddToSeries(acc.weeklySales1m, wk, storedSales)
                                    ELSE acc.weeklySales1m]

\* The window tests the loop makes on a delivery date.
WindowTests(deliveryDate, w) ==
    [w12   |-> withinRange(deliveryDate, w.start12, w.now),
     w6    |-> withinRange(deliveryDate, w.start6, w.now),
     w3    |-> withinRange(deliveryDate, w.start3, w.now),
     w1    |-> withinRange(deliveryDate, w.start1, w.now),
     from3 |-> deliveryDate >= w.start3,
     from1 |-> deliveryDate >= w.start1]

AggregateRow(acc, row, w) ==
    AddRow(acc, toFiniteNumber(row.total_net_margin_eur, 0), toFiniteNumber(row.sales_altona, 0),
           WindowTests(row.delivery_date, w),
           monthKey(row.delivery_date), dateKey(row.delivery_date),
           weekStartKey(row.delivery_date))

RECURSIVE AggregateLoop(_, _, _, _)
AggregateLoop(rows, i, acc, w) ==
    IF i > Len(rows) THEN acc
    ELSE AggregateLoop(rows, i + 1, AggregateRow(acc, rows[i], w), w)

\* The accumulators before the loop: zero sums and counts, zero-seeded series.
SeededAccumulator(monthKeys, dayKeys3m, dayKeys1m, weekKeys3m, weekKeys1m) ==
    [sum12 |-> 0, count12 |-> 0, sum6 |-> 0, count6 |-> 0,
     sum3 |-> 0, count3 |-> 0, sum1 |-> 0, count1 |-> 0,
     monthlySeries  |-> initSeries(monthKeys),
     monthlySalesSeries |-> initSeries(monthKeys),
     dailySeries3m  |-> initSeries(dayKeys3m),
     dailySales3m   |-> initSeries(dayKeys3m),
     dailySeries1m  |-> initSeries(dayKeys1m),
     dailySales1m   |-> initSeries(dayKeys1m),
     weeklySeries3m |-> initSeries(weekKeys3m),
     weeklySales3m  |-> initSeries(weekKeys3m),
     weeklySeries1m |-> initSeries(weekKeys1m),
     weeklySales1m  |-> initSeries(weekKeys1m)]

aggregateRows(rows, w) ==
    AggregateLoop(rows, 1,
        SeededAccumulator(generateMonthRangeInclusive(w.start12, w.now),
                          generateDateRangeInclusive(w.start3, w.now),
                          generateDateRangeInclusive(w.start1, w.now),
                          generateWeekRangeInclusive(w.start3, w.now),
                          generateWeekRangeInclusive(w.start1, w.now)), w)

buildPeriodSummary(totalMargin, rowCount, startDate, endDate) ==
    [total_net_margin_eur |-> totalMargin, row_count |-> rowCount,
     start_date |-> startDate, end_date |-> endDate]

\* One point of a merged series: the key with the value of either map
\* (a missing one counts 0).
SeriesPoint(key, primary, secondary) ==
    [key |-> key,
     total_net_margin_eur |-> IF key \in DOMAIN primary THEN primary[key] ELSE 0,
     sales_altona |-> IF key \in DOMAIN secondary THEN secondary[key] ELSE 0]

MergeAlong(keys, primary, secondary) ==
    [i \in 1..Len(keys) |-> SeriesPoint(keys[i], primary, secondary)]

\* The sorted union of the keys of both maps, each key with both values.
mergeSeries(primary, secondary) ==
    MergeAlong(SortAsc(DOMAIN primary \cup DOMAIN secondary), primary, secondary)

\* The trailing windows of a request.
Windows(nowInstant) ==
    [now |-> nowInstant,
     start12 |-> subMonths(nowInstant, 12),
     start6  |-> subMonths(nowInstant, 6),
     start3  |-> subMonths(nowInstant, 3),
     start1  |-> subMonths(nowInstant, 1)]

\* dedupedRows.slice(0, 200).map(...)
DebugRows(dedupedRows) ==
    [i \in 1..Min2(Len(dedupedRows), 200) |->
        [transaction_id |-> dedupedRows[i].transaction_id,
         delivery_date  |-> dedupedRows[i].delivery_date,
         stored_margin  |-> toFiniteNumber(dedupedRows[i].total_net_margin_eur, 0)]]

\* The payload object, from the windows w, the aggregate a and the
\* de-duplication result dd.
Payload(w, dd, a, debug) ==
    [currency |-> "EUR",
     periods |->
        [last_12_months |-> buildPeriodSummary(a.sum12, a.count12, w.start12, w.now),
         last_6_months  |-> buildPeriodSummary(a.sum6, a.count6, w.start6, w.now),
         last_3_months  |-> buildPeriodSummary(a.sum3, a.count3, w.start3, w.now),
         last_1_month   |-> buildPeriodSummary(a.sum1, a.count1, w.start1, w.now)],
     monthly_series_12m |-> mergeSeries(a.monthlySeries, a.monthlySalesSeries),
     daily_series_3m    |-> mergeSeries(a.dailySeries3m, a.dailySales3m),
     daily_series_1m    |-> mergeSeries(a.dailySeries1m, a.dailySales1m),
     weekly_series_3m   |-> mergeSeries(a.weeklySeries3m, a.weeklySales3m),
     weekly_series_1m   |-> mergeSeries(a.weeklySeries1m, a.weeklySales1m),
     meta |-> [duplicate_transaction_ids |-> dd.duplicateIds,
               duplicate_count |-> Len(dd.duplicateIds),
               debug |-> debug],
     debug_rows |-> IF debug THEN DebugRows(dd.dedupedRows) ELSE <<>>]

AggregateAndAssemble(w, dd, debug) == Payload(w, dd, aggregateRows(dd.dedupedRows, w), debug)

buildNetMarginPayload(fetched, nowInstant, debug) ==
    AggregateAndAssemble(Windows(nowInstant), deduplicateRows(fetched), debug)

-----------------------------------------------------------------------------
(* Partner names and the top-partners assembler                             *)
(* (lib/api/analytics/topPartners.ts).  A string is the sequence of its     *)
(* UTF-16 code units, each a number: "du" is <<100, 117>>.                  *)

DEFAULT_TOP_LIMIT == 5
MAX_TOP_LIMIT == 25
RAW_LIMIT_MULTIPLIER == 4

\* What String.prototype.trim() removes at both ends, and what TRIM(x) of the
\* store removes (spaces only).
JsWhiteSpace == {9, 10, 11, 12, 13, 32, 160}
SqlSpace == {32}

StripEnds(str, blanks) ==
    IF \A i \in DOMAIN str : str[i] \in blanks THEN <<>>
    ELSE SubSeq(str, SetMin({i \in DOMAIN str : str[i] \notin blanks}),
                     SetMax({i \in DOMAIN str : str[i] \notin blanks}))

\* The first n elements of a sequence.
Take(s, n) == SubSeq(s, 1, Min2(n, Len(s)))

\* -1, 0 or 1 as the sequence a comes before, with or after b, unit by unit
\* from position i on.
RECURSIVE CompareSeq(_, _, _)
CompareSeq(a, b, i) ==
    IF i > Len(a) /\ i > Len(b) THEN 0
    ELSE IF i > Len(a) THEN -1
    ELSE IF i > Len(b) THEN 1
    ELSE IF a[i] < b[i] THEN -1
    ELSE IF a[i] > b[i] THEN 1
    ELSE CompareSeq(a, b, i + 1)

\* x || y || z || u on numbers: the first that is not zero.
OrElse(x, y) == IF x # 0 THEN x ELSE y
OrElse4(x, y, z, u) == OrElse(x, OrElse(y, OrElse(z, u)))

\* str.normalize("NFKD") on one code unit: a precomposed letter (u and U with
\* circumflex) becomes its base letter followed by the combining mark U+0302.
Decompose(c) ==
    CASE c = 251 -> <<117, 770>>
      [] c = 219 -> <<85, 770>>
      [] OTHER   -> <<c>>

RECURSIVE NormalizeNFKD(_, _)
NormalizeNFKD(str, i) ==
    IF i > Len(str) THEN <<>> ELSE Decompose(str[i]) \o NormalizeNFKD(str, i + 1)

\* The combining diacritical marks, U+0300 to U+036F.
IsCombiningMark(c) == c \in 768..879
NotCombiningMark(c) == ~IsCombiningMark(c)

\* [a-z0-9]
IsLowerAlnum(c) == c \in 97..122 \/ c \in 48..57

LowerUnit(c) == IF c \in 65..90 \/ (c \in 192..222 /\ c # 215) THEN c + 32 ELSE c

toLowerCase(str) == [i \in DOMAIN str |-> LowerUnit(str[i])]

\* A deviating key: the letters keep their case.
canonicalizeKeepingCase(name) ==
    SelectSeq(SelectSeq(NormalizeNFKD(name, 1), NotCombiningMark), IsLowerAlnum)

canonicalizePartnerKey(name) ==
    SelectSeq(toLowerCase(SelectSeq(NormalizeNFKD(name, 1), NotCombiningMark)), IsLowerAlnum)

\* null and the empty string are both the empty sequence.
normalizePartnerName(name) == StripEnds(name, JsWhiteSpace)

\* localeCompare(..., {sensitivity: "accent", numeric: true}): strings are
\* compared by their base characters without regard to case (white space and
\* punctuation before digits before letters), and, these being equal, by
\* their accents.  Numbers of the names here have one digit, so comparing
\* digit runs by value is comparing digits.
PrimaryWeights(units) ==
    [i \in DOMAIN units |-> IF units[i] \in 65..90 THEN units[i] + 32 ELSE units[i]]

AccentWeights(units) ==
    [i \in DOMAIN units |-> IF IsCombiningMark(units[i]) THEN units[i] ELSE 0]

localeCompare(a, b) ==
    OrElse(CompareSeq(PrimaryWeights(SelectSeq(NormalizeNFKD(a, 1), NotCombiningMark)),
                      PrimaryWeights(SelectSeq(NormalizeNFKD(b, 1), NotCombiningMark)), 1),
           CompareSeq(AccentWeights(NormalizeNFKD(a, 1)), AccentWeights(NormalizeNFKD(b, 1)), 1))

choosePreferredDisplayName(existing, candidate) ==
    IF existing = <<>> THEN candidate
    ELSE IF candidate = <<>> THEN existing
    ELSE IF Len(candidate) > Len(existing) THEN candidate
    ELSE IF Len(candidate) < Len(existing) THEN existing
    ELSE IF localeCompare(candidate, existing) < 0 THEN candidate
    ELSE existing

compareDescending(a, b) == b - a

compareAscendingString(a, b) == localeCompare(a, b)

normalizeLimit(limit) ==
    IF limit.kind # "number" THEN DEFAULT_TOP_LIMIT
    ELSE IF limit.n < 1 THEN 1
    ELSE IF limit.n > MAX_TOP_LIMIT THEN MAX_TOP_LIMIT
    ELSE limit.n

RawLimit(limit) ==
    Max2(limit, Min2(limit * RAW_LIMIT_MULTIPLIER, MAX_TOP_LIMIT * RAW_LIMIT_MULTIPLIER))

\* The aggregate query: one row per TRIM(partner) that is not empty, with the
\* sums of its fact rows, ordered by the chosen metric, the other metric and
\* the name (compared unit by unit), cut at rawLimit.
PartnerGroups(store) == {StripEnds(f.partner, SqlSpace) : f \in store} \ {<<>>}

FactsOf(store, name) == {f \in store : StripEnds(f.partner, SqlSpace) = name}

SumOfFacts(facts) ==
    [total_quantity |-> SumOver(facts, [f \in facts |-> f.quantity]),
     total_sales    |-> SumOver(facts, [f \in facts |-> f.sales])]

GroupRow(name, sums) ==
    [partner_name |-> name, total_quantity |-> Number(sums.total_quantity),
     total_sales |-> Number(sums.total_sales)]

RowOrder(a, b, orderBy) ==
    IF orderBy = "quantity"
    THEN OrElse4(b.total_quantity.n - a.total_quantity.n, b.total_sales.n - a.total_sales.n,
                 CompareSeq(a.partner_name, b.partner_name, 1), 0)
    ELSE OrElse4(b.total_sales.n - a.total_sales.n, b.total_quantity.n - a.total_quantity.n,
                 CompareSeq(a.partner_name, b.partner_name, 1), 0)

OrderedRows(rows, orderBy) ==
    CHOOSE s \in Orderings(rows) :
        \A i \in 1..(Len(s) - 1) : RowOrder(s[i], s[i + 1], orderBy) < 0

topPartnersQuery(store, orderBy, rawLimit) ==
    Take(OrderedRows({GroupRow(g, SumOfFacts(FactsOf(store, g))) : g \in PartnerGroups(store)},
                     orderBy), rawLimit)

\* The body of topPartnersRaw.forEach for a row that has a name and a key.
AddToBucket(map, canonicalKey, partnerName, totalQuantity, totalSalesValue, index) ==
    IF canonicalKey \in DOMAIN map
    THEN [map EXCEPT ![canonicalKey] =
            [canonicalKey |-> @.canonicalKey,
             displayName |-> choosePreferredDisplayName(@.displayName, partnerName),
             variants |-> @.variants \cup {partnerName},
             totalQuantity |-> @.totalQuantity + totalQuantity,
             totalSalesValue |-> @.totalSalesValue + totalSalesValue,
             ordinal |-> Min2(@.ordinal, index)]]
    ELSE (canonicalKey :>
            [canonicalKey |-> canonicalKey,
             displayName |-> partnerName,
             variants |-> {partnerName},
             totalQuantity |-> totalQuantity,
             totalSalesValue |-> totalSalesValue,
             ordinal |-> index]) @@ map

FoldKeyed(map, canonicalKey, partnerName, row, index) ==
    IF canonicalKey = <<>> THEN map
    ELSE AddToBucket(map, canonicalKey, partnerName, toFiniteNumber(row.total_quantity, 0),
                     toFiniteNumber(row.total_sales, 0), index)

FoldNamed(map, partnerName, row, index) ==
    IF partnerName = <<>> THEN map
    ELSE FoldKeyed(map, canonicalizePartnerKey(partnerName), partnerName, row, index)

RECURSIVE FoldRows(_, _, _)
FoldRows(rows, i, map) ==
    IF i > Len(rows) THEN map
    ELSE FoldRows(rows, i + 1,
                  FoldNamed(map, normalizePartnerName(rows[i].partner_name), rows[i], i - 1))

\* The comparator of buckets.sort.
BucketOrder(a, b, orderBy) ==
    IF orderBy = "quantity"
    THEN OrElse4(compareDescending(a.totalQuantity, b.totalQuantity),
                 compareDescending(a.totalSalesValue, b.totalSalesValue),
                 compareAscendingString(a.displayName, b.displayName),
                 a.ordinal - b.ordinal)
    ELSE OrElse4(compareDescending(a.totalSalesValue, b.totalSalesValue),
                 compareDescending(a.totalQuantity, b.totalQuantity),
                 compareAscendingString(a.displayName, b.displayName),
                 a.ordinal - b.ordinal)

SortedBuckets(buckets, orderBy) ==
    CHOOSE s \in Orderings(buckets) :
        \A i \in 1..(Len(s) - 1) : BucketOrder(s[i], s[i + 1], orderBy) < 0

RankedPartners(topBuckets) ==
    [i \in DOMAIN topBuckets |->
        [rank |-> i,
         partnerName |-> topBuckets[i].displayName,
         totalQuantity |-> topBuckets[i].totalQuantity,
         totalSalesValue |-> topBuckets[i].totalSalesValue]]

PartnersPayload(map, partners, limit, orderBy) ==
    [done |-> TRUE,
     bucketMap |-> map,
     partners |-> partners,
     totals |-> [quantity |-> SumSeq([i \in DOMAIN partners |-> partners[i].totalQuantity], 1),
                 salesValue |-> SumSeq([i \in DOMAIN partners |-> partners[i].totalSalesValue], 1)],
     metadata |-> [limit |-> limit, orderBy |-> orderBy]]

RankAndAssemble(map, limit, orderBy) ==
    PartnersPayload(map,
        RankedPartners(Take(SortedBuckets({map[k] : k \in DOMAIN map}, orderBy), limit)),
        limit, orderBy)

\* The part of buildTopPartnersPayload after the aggregate query; the per-year
\* breakdown is left out.
AssembleTopPartners(topPartnersRaw, limit, orderBy) ==
    RankAndAssemble(FoldRows(topPartnersRaw, 1, <<>>), limit, orderBy)

-----------------------------------------------------------------------------
(* Most sold products (lib/api/analytics, part_007; the route handler       *)
(* app/api/analytics/most-sold-products/route.ts carries the same query and *)
(* the same mapping).                                                       *)
(*                                                                          *)
(* A text column holds a sequence of code units, or NullText for NULL; a    *)
(* numeric or date column holds Null or a cell with its value.  A row of    *)
(* sales_transactions is a record of the columns the views read.            *)

NullText == <<-1>>

\* The text "all" of both filters, and the "N/A" shown for a missing reference.
AllText == <<97, 108, 108>>
AllYears == [kind |-> "all", n |-> 0]
NotAvailable == <<78, 47, 65>>

RankCutoff == 5

\* TRIM(x) and COALESCE(x, 0) of the store.
SqlTrim(text) == IF text = NullText THEN NullText ELSE StripEnds(text, SqlSpace)
Coalesce(cell) == IF cell.kind = "null" THEN 0 ELSE cell.n

\* ORDER BY on a text column, ascending: NULL first, then unit by unit.
SqlCompareText(a, b) ==
    IF a = b THEN 0
    ELSE IF a = NullText THEN -1
    ELSE IF b = NullText THEN 1
    ELSE CompareSeq(a, b, 1)

\* Date.UTC(year, 0, 1), in hours.
DateUTC(year) == DaysFromCivil(year, 1, 1) * 24

\* The elements of a finite set as the sequence in which Before(q, r) puts q
\* ahead of r; Before is a strict total order on S.
SortedBy(S, Before(_, _)) ==
    [i \in 1..Cardinality(S) |->
        CHOOSE r \in S : Cardinality({q \in S : Before(q, r)}) = i - 1]

\* strftime('%Y' / '%m', delivery_date / 1000.0, 'unixepoch'), cast to an integer.
YearOfDelivery(f) == CivilFromDays(f.delivery_date.n \div 24).year
MonthOfDelivery(f) == CivilFromDays(f.delivery_date.n \div 24).month

\* Whether the WHERE clause built for (year, category) keeps the fact row f.
buildWhereClause(f, year, category) ==
    /\ f.product_category # NullText
    /\ SqlTrim(f.product_category) # <<>>
    /\ year.kind # "all" =>
          /\ f.delivery_date.kind # "null"
          /\ f.delivery_date.n >= DateUTC(year.n)
          /\ f.delivery_date.n < DateUTC(year.n + 1)
    /\ category # AllText => f.product_category = category

\* filtered: one row per (category, family, reference) with its summed quantity.
ProductKey(f) ==
    [product_category |-> f.product_category,
     product_family |-> f.product_family,
     product_reference |-> f.product_reference]

GroupQuantity(facts) == SumOver(facts, [f \in facts |-> Coalesce(f.quantity)])

FilteredRow(key, facts) ==
    [product_category |-> key.product_category,
     product_family |-> key.product_family,
     product_reference |-> key.product_reference,
     total_quantity |-> GroupQuantity({f \in facts : ProductKey(f) = key})]

Filtered(facts) == {FilteredRow(key, facts) : key \in {ProductKey(f) : f \in facts}}

\* ORDER BY total_quantity DESC, product_reference ASC of the window; rows
\* equal on both keys (the same reference under two families) come in an order
\* the store chooses, storeOrder being 1 or -1.
WindowBefore(q, r, storeOrder) ==
    \/ q.total_quantity > r.total_quantity
    \/ /\ q.total_quantity = r.total_quantity
       /\ SqlCompareText(q.product_reference, r.product_reference) < 0
    \/ /\ q.total_quantity = r.total_quantity
       /\ q.product_reference = r.product_reference
       /\ storeOrder * SqlCompareText(q.product_family, r.product_family) < 0

\* ROW_NUMBER() without its PARTITION BY: one numbering over all categories.
RowNumberOverAll(filtered, r, storeOrder) ==
    1 + Cardinality({q \in filtered : WindowBefore(q, r, storeOrder)})

\* ROW_NUMBER() OVER (PARTITION BY product_category ORDER BY ...).
RowNumber(filtered, r, storeOrder) ==
    1 + Cardinality({q \in filtered :
                        /\ q.product_category = r.product_category
                        /\ WindowBefore(q, r, storeOrder)})

\* SUM(total_quantity) OVER (PARTITION BY product_category).
CategoryTotal(filtered, r) ==
    SumOver({q \in filtered : q.product_category = r.product_category},
            [q \in filtered |-> q.total_quantity])

RankedRow(filtered, r, storeOrder) ==
    [product_category |-> r.product_category,
     product_family |-> r.product_family,
     product_reference |-> r.product_reference,
     total_quantity |-> Number(r.total_quantity),
     category_total_quantity |-> Number(CategoryTotal(filtered, r)),
     rank |-> Number(RowNumber(filtered, r, storeOrder))]

Ranked(filtered, storeOrder) == {RankedRow(filtered, r, storeOrder) : r \in filtered}

\* The final ORDER BY total_quantity DESC, product_category ASC,
\* product_reference ASC; what it leaves equal comes in the store's order.
OutputBefore(q, r, storeOrder) ==
    \/ q.total_quantity.n > r.total_quantity.n
    \/ /\ q.total_quantity.n = r.total_quantity.n
       /\ SqlCompareText(q.product_category, r.product_category) < 0
    \/ /\ q.total_quantity.n = r.total_quantity.n
       /\ q.product_category = r.product_category
       /\ SqlCompareText(q.product_reference, r.product_reference) < 0
    \/ /\ q.total_quantity.n = r.total_quantity.n
       /\ q.product_category = r.product_category
       /\ q.product_reference = r.product_reference
       /\ storeOrder * SqlCompareText(q.product_family, r.product_family) < 0

CutAndOrder(ranked, outputOrder) ==
    SortedBy({r \in ranked : r.rank.n <= RankCutoff},
             LAMBDA q, r : OutputBefore(q, r, outputOrder))

\* The rows the ranking query returns for the fact rows its WHERE clause keeps.
buildTopProductsQuery(facts, windowOrder, outputOrder) ==
    CutAndOrder(Ranked(Filtered(facts), windowOrder), outputOrder)

\* A text value in a condition: neither null nor empty.
Truthy(text) == text # NullText /\ text # <<>>

\* The quotient x / total, kept as the pair of its operands.
Ratio(x, total) == [kind |-> "ratio", num |-> x, den |-> total]

\* The share guarded against a zero total only.
MostSoldProductRowUnlessZero(row, totalQuantity, categoryTotal) ==
    [productCategory |-> row.product_category,
     productReference |->
        IF Truthy(row.product_reference) THEN row.product_reference ELSE NotAvailable,
     productFamily |-> row.product_family,
     totalQuantity |-> totalQuantity,
     categoryTotalQuantity |-> categoryTotal,
     shareWithinCategory |->
        IF categoryTotal # 0 THEN Ratio(totalQuantity, categoryTotal) ELSE Null,
     rankWithinCategory |-> toFiniteNumber(row.rank, 0)]

MostSoldProductRow(row, totalQuantity, categoryTotal) ==
    [productCategory |-> row.product_category,
     productReference |->
        IF Truthy(row.product_reference) THEN row.product_reference ELSE NotAvailable,
     productFamily |-> row.product_family,
     totalQuantity |-> totalQuantity,
     categoryTotalQuantity |-> categoryTotal,
     shareWithinCategory |->
        IF categoryTotal > 0 THEN Ratio(totalQuantity, categoryTotal) ELSE Null,
     rankWithinCategory |-> toFiniteNumber(row.rank, 0)]

MapKeptRows(kept) ==
    [i \in DOMAIN kept |->
        MostSoldProductRow(kept[i], toFiniteNumber(kept[i].total_quantity, 0),
                           toFiniteNumber(kept[i].category_total_quantity, 0))]

mapTopProductRows(rows) ==
    MapKeptRows(SelectSeq(rows, LAMBDA row : Truthy(row.product_category)))

\* The two distinct-value queries behind the option lists: the years of
\* delivery, descending, and the categories that are not blank, ascending.
fetchYearRows(facts) ==
    SortedBy({Number(YearOfDelivery(f)) : f \in {g \in facts : g.delivery_date.kind # "null"}},
             LAMBDA q, r : q.n > r.n)

fetchCategoryRows(facts) ==
    SortedBy({f.product_category :
                 f \in {g \in facts : /\ g.product_category # NullText
                                      /\ SqlTrim(g.product_category) # <<>>}},
             LAMBDA q, r : SqlCompareText(q, r) < 0)

normalizeYearValue(year) == IF year.kind = "null" THEN Null ELSE Number(year.n)

\* The elements of a sequence without the later repetitions (a Set keeps
\* insertion order).
Unique(seq) ==
    LET first == {i \in DOMAIN seq : \A j \in 1..(i - 1) : seq[j] # seq[i]}
        order == SortAsc(first)
    IN  [k \in DOMAIN order |-> seq[order[k]]]

\* A stable Array.prototype.sort under the comparison compare.
StableSort(list, compare(_, _)) ==
    LET order == SortedBy(DOMAIN list,
                          LAMBDA i, j : \/ compare(list[i], list[j]) < 0
                                        \/ compare(list[i], list[j]) = 0 /\ i < j)
    IN  [k \in DOMAIN list |-> list[order[k]]]

\* The years of the rows, then the selected year unless seen, sorted
\* descending; numbers.
buildYearOptions(rows, selectedYear) ==
    LET years == Unique(SelectSeq([i \in DOMAIN rows |-> normalizeYearValue(rows[i])],
                                  LAMBDA y : y.kind # "null"))
        seen == {years[i].n : i \in DOMAIN years}
        pushed == IF selectedYear.kind # "all" /\ selectedYear.n \notin seen
                  THEN Append(years, selectedYear) ELSE years
        sorted == StableSort(pushed, LAMBDA a, b : b.n - a.n)
    IN  [i \in DOMAIN sorted |-> sorted[i].n]

\* localeCompare(..., {sensitivity: "base"}): by base characters alone,
\* without regard to case or accents.
localeCompareBase(a, b) ==
    CompareSeq(PrimaryWeights(SelectSeq(NormalizeNFKD(a, 1), NotCombiningMark)),
               PrimaryWeights(SelectSeq(NormalizeNFKD(b, 1), NotCombiningMark)), 1)

\* The categories of the rows sorted by base characters; the selected
\* category is put in front when none of them is its equal at that strength.
buildCategoryOptions(rows, selectedCategory) ==
    LET categories == SelectSeq(rows, LAMBDA category :
                          Truthy(category) /\ StripEnds(category, JsWhiteSpace) # <<>>)
        unique == StableSort(Unique(categories), localeCompareBase)
    IN  IF /\ selectedCategory # AllText
           /\ ~\E i \in DOMAIN unique : localeCompareBase(unique[i], selectedCategory) = 0
        THEN <<selectedCategory>> \o unique
        ELSE unique

\* String(year) of a year of four digits.
StringOfYear(year) ==
    <<48 + (year \div 1000), 48 + ((year \div 100) % 10),
      48 + ((year \div 10) % 10), 48 + (year % 10)>>

MostSoldPayload(rows, year, category, yearOptions, categoryOptions) ==
    [done |-> TRUE,
     filters |->
        [year |-> year, category |-> category,
         yearOptions |->
            <<AllText>> \o [i \in DOMAIN yearOptions |-> StringOfYear(yearOptions[i])],
         categoryOptions |-> <<AllText>> \o categoryOptions],
     rows |-> rows,
     summary |->
        [totalCategories |-> Cardinality({rows[i].productCategory : i \in DOMAIN rows}),
         totalQuantityTopProducts |->
            SumSeq([i \in DOMAIN rows |-> rows[i].totalQuantity], 1),
         totalRows |-> Len(rows)]]

\* The part of buildMostSoldProductsPayload after its three queries.
buildMostSoldProductsPayload(yearRows, categoryRows, topProductRows, year, category) ==
    MostSoldPayload(mapTopProductRows(topProductRows), year, category,
                    buildYearOptions(yearRows, year),
                    buildCategoryOptions(categoryRows, category))

-----------------------------------------------------------------------------
(* Sales value of a row in the top-partners view (topPartners.ts).          *)

\* The sales value expressions of topPartners.ts, each as the value it has
\* on one row f of sales_transactions.
SALES_VALUE_ALL_EXPRESSION(f) ==
    IF Coalesce(f.sales_altona) # 0 THEN Coalesce(f.sales_altona)
    ELSE IF Coalesce(f.direct_sales) # 0 THEN Coalesce(f.direct_sales)
    ELSE IF f.sales_altona.kind # "null" THEN f.sales_altona.n
    ELSE Coalesce(f.direct_sales)

SALES_VALUE_DIRECT_EXPRESSION(f) == Coalesce(f.direct_sales)
SALES_VALUE_INDIRECT_EXPRESSION(f) == Coalesce(f.sales_altona)

\* Each channel resolved to the expression named after it.
resolveSalesValueExpressionByName(f, channel) ==
    IF channel = "direct" THEN SALES_VALUE_DIRECT_EXPRESSION(f)
    ELSE IF channel = "indirect" THEN SALES_VALUE_INDIRECT_EXPRESSION(f)
    ELSE SALES_VALUE_ALL_EXPRESSION(f)

\* resolveSalesValueExpression of topPartners.ts: "direct" resolves to the
\* expression named INDIRECT and "indirect" to the one named DIRECT.
resolveSalesValueExpressionOfPartners(f, channel) ==
    IF channel = "direct" THEN SALES_VALUE_INDIRECT_EXPRESSION(f)
    ELSE IF channel = "indirect" THEN SALES_VALUE_DIRECT_EXPRESSION(f)
    ELSE SALES_VALUE_ALL_EXPRESSION(f)

-----------------------------------------------------------------------------
(* Commercial responsibles (lib/api/analytics, part_008).                   *)

MAX_LIMIT == 250
MIN_ALLOWED_YEAR == 1900
MAX_ALLOWED_YEAR == 2200

\* "Permanent direct" and "Operation direct" (its first e with an acute
\* accent, unit 233).
INDIRECT_ORDER_TYPES ==
    {<<80, 101, 114, 109, 97, 110, 101, 110, 116, 32, 100, 105, 114, 101, 99, 116>>,
     <<79, 112, 233, 114, 97, 116, 105, 111, 110, 32, 100, 105, 114, 101, 99, 116>>}

\* The filter with its NOT left out of the "direct" branch.
buildSalesChannelFilterWithoutNot(f, channel) ==
    IF channel = "all" THEN TRUE
    ELSE f.order_type # NullText /\ f.order_type \in INDIRECT_ORDER_TYPES

\* order_type IN (...) of the store: true of no NULL, and neither is its NOT.
buildSalesChannelFilter(f, channel) ==
    IF channel = "all" THEN TRUE
    ELSE IF channel = "indirect"
    THEN f.order_type # NullText /\ f.order_type \in INDIRECT_ORDER_TYPES
    ELSE f.order_type # NullText /\ f.order_type \notin INDIRECT_ORDER_TYPES

\* Whether the base filters of a request keep the fact row f; year is Null
\* or the cell of the year asked for.
buildBaseFilters(f, year, salesChannel) ==
    /\ f.commercial_responsible # NullText
    /\ SqlTrim(f.commercial_responsible) # <<>>
    /\ f.delivery_date.kind # "null"
    /\ year.kind # "null" =>
          /\ f.delivery_date.n >= DateUTC(year.n)
          /\ f.delivery_date.n < DateUTC(year.n + 1)
    /\ buildSalesChannelFilter(f, salesChannel)

\* The expression with "all" resolved to sales_altona whatever the order type.
resolveSalesValueExpressionAllAltona(f, channel) ==
    IF channel = "indirect" THEN Coalesce(f.direct_sales)
    ELSE Coalesce(f.sales_altona)

\* The sales value of one fact row under the channel's expression.
resolveSalesValueExpression(f, channel) ==
    IF channel = "direct" THEN Coalesce(f.sales_altona)
    ELSE IF channel = "indirect" THEN Coalesce(f.direct_sales)
    ELSE IF f.order_type # NullText /\ f.order_type \in INDIRECT_ORDER_TYPES
    THEN Coalesce(f.direct_sales)
    ELSE Coalesce(f.sales_altona)

normalizeLimitOfRows(limit) ==
    IF limit.kind # "number" THEN Null
    ELSE IF limit.n < 1 THEN Number(1)
    ELSE IF limit.n > MAX_LIMIT THEN Number(MAX_LIMIT)
    ELSE limit

inAllowedYearRange(year) == year >= MIN_ALLOWED_YEAR /\ year <= MAX_ALLOWED_YEAR

normalizeYearOfRow(value) ==
    IF value.kind \notin FiniteKinds THEN Null
    ELSE IF inAllowedYearRange(value.n) THEN Number(value.n)
    ELSE Null

normalizeMonthValue(value) ==
    IF value.kind \notin FiniteKinds THEN Null
    ELSE IF value.n < 1 \/ value.n > 12 THEN Null
    ELSE Number(value.n)

normalizeName(value) ==
    IF value = NullText THEN NullText
    ELSE IF StripEnds(value, JsWhiteSpace) = <<>> THEN NullText
    ELSE StripEnds(value, JsWhiteSpace)

\* The comparison of two aggregate rows under the ORDER BY of orderBy.
buildOrderBySql(a, b, orderBy) ==
    IF orderBy = "quantity"
    THEN OrElse4(b.total_quantity.n - a.total_quantity.n, b.total_sales.n - a.total_sales.n,
                 SqlCompareText(a.commercial_responsible, b.commercial_responsible), 0)
    ELSE IF orderBy = "name"
    THEN OrElse4(SqlCompareText(a.commercial_responsible, b.commercial_responsible),
                 b.total_sales.n - a.total_sales.n,
                 b.total_quantity.n - a.total_quantity.n, 0)
    ELSE OrElse4(b.total_sales.n - a.total_sales.n, b.total_quantity.n - a.total_quantity.n,
                 SqlCompareText(a.commercial_responsible, b.commercial_responsible), 0)

SalesSum(facts, channel) ==
    SumOver(facts, [f \in facts |-> resolveSalesValueExpression(f, channel)])

ResponsibleRow(name, facts, channel) ==
    [commercial_responsible |-> name,
     total_quantity |-> Number(GroupQuantity(facts)),
     total_sales |-> Number(SalesSum(facts, channel))]

ResponsibleGroups(facts, channel) ==
    {ResponsibleRow(name, {f \in facts : SqlTrim(f.commercial_responsible) = name}, channel) :
        name \in {SqlTrim(f.commercial_responsible) : f \in facts}}

Limited(rows, limit) == IF limit.kind = "null" THEN rows ELSE Take(rows, limit.n)

\* The aggregate query over the fact rows the base filters keep.
aggregateQuery(facts, channel, orderBy, limit) ==
    Limited(SortedBy(ResponsibleGroups(facts, channel),
                     LAMBDA q, r : buildOrderBySql(q, r, orderBy) < 0), limit)

CleanedRow(r) ==
    [name |-> normalizeName(r.commercial_responsible),
     totalQuantity |-> toFiniteNumber(r.total_quantity, 0),
     totalSalesValue |-> toFiniteNumber(r.total_sales, 0)]

cleanedAgg(rows) ==
    SelectSeq([i \in DOMAIN rows |-> CleanedRow(rows[i])], LAMBDA r : r.name # NullText)

PeriodKey(f, view) ==
    [commercial_responsible |-> SqlTrim(f.commercial_responsible),
     year |-> Number(YearOfDelivery(f)),
     month |-> IF view = "monthly" THEN Number(MonthOfDelivery(f)) ELSE Null]

PeriodRow(key, facts, channel) ==
    [commercial_responsible |-> key.commercial_responsible,
     year |-> key.year,
     month |-> key.month,
     total_quantity |-> Number(GroupQuantity(facts)),
     total_sales |-> Number(SalesSum(facts, channel))]

PeriodBefore(q, r) ==
    OrElse4(SqlCompareText(q.commercial_responsible, r.commercial_responsible),
            q.year.n - r.year.n, q.month.n - r.month.n, 0) < 0

PeriodGroups(facts, view, channel) ==
    {PeriodRow(key, {f \in facts : PeriodKey(f, view) = key}, channel) :
        key \in {PeriodKey(f, view) : f \in facts}}

\* The period query over the fact rows the base filters keep: those of the
\* included names, grouped by name and period, in the order of its ORDER BY.
loadPeriodRows(facts, view, channel, includedNames) ==
    IF Len(includedNames) = 0 THEN <<>>
    ELSE SortedBy(PeriodGroups({f \in facts : SqlTrim(f.commercial_responsible)
                                                 \in SeqRange(includedNames)},
                               view, channel),
                  PeriodBefore)

\* Whether buildSeriesMap keeps a period row: it has a name, a year and, in
\* the monthly view, a month.
KeepsPeriodRow(row, view) ==
    /\ normalizeName(row.commercial_responsible) # NullText
    /\ normalizeYearOfRow(row.year).kind # "null"
    /\ view = "monthly" => normalizeMonthValue(row.month).kind # "null"

\* The bucket pushed for a period row; period is the text "YYYY-MM" or "YYYY",
\* held as the number its digits spell.
Bucket(row, year, month, view) ==
    [period |-> IF view = "monthly" THEN year.n * 100 + month.n ELSE year.n,
     year |-> year.n,
     month |-> month,
     salesValue |-> toFiniteNumber(row.total_sales, 0),
     quantity |-> toFiniteNumber(row.total_quantity, 0)]

BucketOfRow(row, view) ==
    Bucket(row, normalizeYearOfRow(row.year),
           IF view = "monthly" THEN normalizeMonthValue(row.month) ELSE Null, view)

BucketsOfRows(kept, view) == [i \in DOMAIN kept |-> BucketOfRow(kept[i], view)]

\* bucketsByName.get(name): the buckets of the rows of one name, in row order.
BucketList(rows, name, view) ==
    BucketsOfRows(SelectSeq(rows, LAMBDA row :
                      /\ KeepsPeriodRow(row, view)
                      /\ normalizeName(row.commercial_responsible) = name), view)

\* list.sort by year, then by month ?? 0; the sort is stable.
ListBefore(list, i, j) ==
    \/ OrElse(list[i].year - list[j].year, list[i].month.n - list[j].month.n) < 0
    \/ /\ OrElse(list[i].year - list[j].year, list[i].month.n - list[j].month.n) = 0
       /\ i < j

Permuted(list, order) == [k \in DOMAIN list |-> list[order[k]]]

SortList(list) ==
    Permuted(list, SortedBy(DOMAIN list, LAMBDA i, j : ListBefore(list, i, j)))

PeriodBucket(b, deltaSalesValue, deltaQuantity) ==
    [period |-> b.period, year |-> b.year, month |-> b.month,
     salesValue |-> b.salesValue, quantity |-> b.quantity,
     deltaSalesValue |-> deltaSalesValue, deltaQuantity |-> deltaQuantity]

\* Every delta taken against the first bucket of the list.
WithDeltasAgainstFirst(list) ==
    [idx \in DOMAIN list |->
        IF idx > 1
        THEN PeriodBucket(list[idx], Number(list[idx].salesValue - list[1].salesValue),
                          Number(list[idx].quantity - list[1].quantity))
        ELSE PeriodBucket(list[idx], Null, Null)]

\* list.map((b, idx) => ...): the deltas against prev = list[idx - 1].
WithDeltas(list) ==
    [idx \in DOMAIN list |->
        IF idx > 1
        THEN PeriodBucket(list[idx], Number(list[idx].salesValue - list[idx - 1].salesValue),
                          Number(list[idx].quantity - list[idx - 1].quantity))
        ELSE PeriodBucket(list[idx], Null, Null)]

buildSeriesMap(rows, view) ==
    [name \in {normalizeName(rows[i].commercial_responsible) :
                  i \in {k \in DOMAIN rows : KeepsPeriodRow(rows[k], view)}} |->
        WithDeltas(SortList(BucketList(rows, name, view)))]

loadAvailableYears(facts) ==
    SortAsc({y \in {YearOfDelivery(f) : f \in {g \in facts : g.delivery_date.kind # "null"}} :
                inAllowedYearRange(y)})

CommercialResponsibleRow(agg, series, totalQuantity, totalSalesValue) ==
    [commercialResponsible |-> agg.name,
     totalSalesValue |-> agg.totalSalesValue,
     totalQuantity |-> agg.totalQuantity,
     shareOfSalesValue |->
        IF totalSalesValue > 0 THEN Ratio(agg.totalSalesValue, totalSalesValue) ELSE Null,
     shareOfQuantity |->
        IF totalQuantity > 0 THEN Ratio(agg.totalQuantity, totalQuantity) ELSE Null,
     series |-> series]

SeriesOf(seriesByName, name) ==
    IF name \in DOMAIN seriesByName THEN seriesByName[name] ELSE <<>>

CommercialPayload(cleaned, seriesByName, totalQuantity, totalSalesValue, o, availableYears) ==
    [done |-> TRUE,
     rows |-> [i \in DOMAIN cleaned |->
                  CommercialResponsibleRow(cleaned[i], SeriesOf(seriesByName, cleaned[i].name),
                                           totalQuantity, totalSalesValue)],
     filters |-> [year |-> [selected |-> o.year, options |-> availableYears],
                  salesChannel |-> o.salesChannel,
                  view |-> o.view],
     totals |-> [quantity |-> totalQuantity, salesValue |-> totalSalesValue],
     metadata |-> [orderBy |-> o.orderBy, limit |-> normalizeLimitOfRows(o.limit)]]

\* The two queries of buildCommercialResponsiblesPayload, the second fed
\* with the names of the first.
PeriodRowsFor(kept, o, aggRows) ==
    [aggregateRows |-> aggRows,
     periodRows |->
        LET cleaned == cleanedAgg(aggRows)
        IN  loadPeriodRows(kept, o.view, o.salesChannel,
                           [i \in DOMAIN cleaned |-> cleaned[i].name])]

CommercialQueries(facts, o) ==
    LET kept == {f \in facts : buildBaseFilters(f, o.year, o.salesChannel)}
    IN  PeriodRowsFor(kept, o,
            aggregateQuery(kept, o.salesChannel, o.orderBy, normalizeLimitOfRows(o.limit)))

AssembleCleaned(cleaned, periodRows, facts, o) ==
    CommercialPayload(cleaned, buildSeriesMap(periodRows, o.view),
                      SumSeq([i \in DOMAIN cleaned |-> cleaned[i].totalQuantity], 1),
                      SumSeq([i \in DOMAIN cleaned |-> cleaned[i].totalSalesValue], 1),
                      o, loadAvailableYears(facts))

\* The part of buildCommercialResponsiblesPayload after its two queries.
buildCommercialResponsiblesPayload(raw, facts, o) ==
    AssembleCleaned(cleanedAgg(raw.aggregateRows), raw.periodRows, facts, o)

-----------------------------------------------------------------------------
(* Dashboard summary deltas (part_008).  A finite number is a cell          *)
(* Number(n); the two delta functions are also handed null, and a number    *)
(* may be infinite or NaN.  Arithmetic is exact: the rounding of doubles    *)
(* below the fourth decimal is not modelled.                                *)

Infinity == [kind |-> "infinity", n |-> 0]
NaN == [kind |-> "nan", n |-> 0]

isFinite(x) == x.kind = "number"

Abs(x) == IF x < 0 THEN 0 - x ELSE x

\* Math.round(value * factor) for value = q + r / den with 0 <= r < den, one
\* decimal place at a time: the nearest integer, a half going up.
RECURSIVE RoundShifted(_, _, _, _)
RoundShifted(q, r, den, places) ==
    IF places = 0 THEN q + (IF 2 * r >= den THEN 1 ELSE 0)
    ELSE RoundShifted(q * 10 + (r * 10) \div den, (r * 10) % den, den, places - 1)

\* round(value, precision) for value = num / den, den > 0; the result is
\* counted in units of 10^-precision (a negative zero counts as 0).
round(num, den, precision) == RoundShifted(num \div den, num % den, den, precision)

DeltaOf(value, mode, delta) ==
    [value |-> value, mode |-> mode, direction |-> IF delta >= 0 THEN "up" ELSE "down"]

\* The direction read off the rounded value.
computePercentDeltaFromRounded(currentValue, previousValue) ==
    IF \/ currentValue.kind = "null"
       \/ previousValue.kind = "null"
       \/ ~isFinite(previousValue)
       \/ previousValue.n = 0
    THEN Null
    ELSE IF ~isFinite(currentValue) THEN Null
    ELSE DeltaOf(round((currentValue.n - previousValue.n) * 100, Abs(previousValue.n), 4),
                 "percent",
                 round((currentValue.n - previousValue.n) * 100, Abs(previousValue.n), 4))

\* delta = (currentValue - previousValue) / |previousValue| * 100 has the sign
\* of currentValue - previousValue and is finite when currentValue is.
computePercentDelta(currentValue, previousValue) ==
    IF \/ currentValue.kind = "null"
       \/ previousValue.kind = "null"
       \/ ~isFinite(previousValue)
       \/ previousValue.n = 0
    THEN Null
    ELSE IF ~isFinite(currentValue) THEN Null
    ELSE DeltaOf(round((currentValue.n - previousValue.n) * 100, Abs(previousValue.n), 4),
                 "percent", currentValue.n - previousValue.n)

\* The values handed to computeAbsoluteDelta are counted in units of 10^-5.
FixedPoint == 10 ^ 5

\* A variant that reads null as 0, for comparison.
computeAbsoluteDeltaOfZero(currentValue, previousValue) ==
    DeltaOf(round(Coalesce(currentValue) - Coalesce(previousValue), FixedPoint, 4),
            "absolute", Coalesce(currentValue) - Coalesce(previousValue))

computeAbsoluteDelta(currentValue, previousValue) ==
    IF \/ currentValue.kind = "null"
       \/ previousValue.kind = "null"
       \/ ~isFinite(currentValue)
       \/ ~isFinite(previousValue)
    THEN Null
    ELSE DeltaOf(round(currentValue.n - previousValue.n, FixedPoint, 4),
                 "absolute", currentValue.n - previousValue.n)

-----------------------------------------------------------------------------
(* Query parameters of the endpoints (app/api/**/route.ts) and their        *)
(* validation.  A parameter is the text searchParams.get returns, NullText  *)
(* when absent.  A parser returns Ok(value) or throws: Throw(class,         *)
(* message), the message being the parameter it names.                      *)

Ok(value) == [ok |-> TRUE, value |-> value]
Throw(class, message) == [ok |-> FALSE, class |-> class, message |-> message]

\* The words the parsers compare with, all lower case.
TextSupplier == <<115, 117, 112, 112, 108, 105, 101, 114>>
TextSuppliers == <<115, 117, 112, 112, 108, 105, 101, 114, 115>>
TextClient == <<99, 108, 105, 101, 110, 116>>
TextClients == <<99, 108, 105, 101, 110, 116, 115>>
TextSales == <<115, 97, 108, 101, 115>>
TextQuantity == <<113, 117, 97, 110, 116, 105, 116, 121>>
TextName == <<110, 97, 109, 101>>
TextDirect == <<100, 105, 114, 101, 99, 116>>
TextIndirect == <<105, 110, 100, 105, 114, 101, 99, 116>>
TextYearly == <<121, 101, 97, 114, 108, 121>>
TextMonthly == <<109, 111, 110, 116, 104, 108, 121>>

\* value.trim().toLowerCase()
Normalized(value) == toLowerCase(StripEnds(value, JsWhiteSpace))

\* A number of JavaScript that a decimal literal spells: num / den, den a
\* power of ten.
JsNumber(num, den) == [kind |-> "number", num |-> num, den |-> den]

IsDigits(text) == \A i \in DOMAIN text : text[i] \in 48..57

RECURSIVE DigitsValue(_, _)
DigitsValue(text, i) ==
    IF i = 0 THEN 0 ELSE DigitsValue(text, i - 1) * 10 + (text[i] - 48)

\* Number(value) on a text: white space around it is dropped, the empty text
\* is 0, a decimal literal with an optional sign and fraction is its value,
\* and everything else is NaN.
NumberOfLiteral(sign, body) ==
    LET dots == {i \in DOMAIN body : body[i] = 46}
        whole == IF dots = {} THEN body ELSE SubSeq(body, 1, SetMin(dots) - 1)
        fraction == IF dots = {} THEN <<>> ELSE SubSeq(body, SetMin(dots) + 1, Len(body))
    IN  IF /\ Cardinality(dots) <= 1
           /\ IsDigits(whole) /\ IsDigits(fraction)
           /\ Len(whole) + Len(fraction) > 0
        THEN JsNumber(sign * DigitsValue(whole \o fraction, Len(whole) + Len(fraction)),
                      10 ^ Len(fraction))
        ELSE NaN

NumberOfText(value) ==
    LET text == StripEnds(value, JsWhiteSpace)
    IN  IF text = <<>> THEN JsNumber(0, 1)
        ELSE IF text[1] = 45 THEN NumberOfLiteral(-1, Tail(text))
        ELSE IF text[1] = 43 THEN NumberOfLiteral(1, Tail(text))
        ELSE NumberOfLiteral(1, text)

\* Math.trunc and Number.isInteger on a finite number.
Trunc(x) == IF x.num >= 0 THEN x.num \div x.den ELSE 0 - ((0 - x.num) \div x.den)
IsInteger(x) == x.kind = "number" /\ x.num % x.den = 0

\* top-partners/route.ts
normalizePartnerKind(kind) ==
    IF Normalized(kind) \in {TextSupplier, TextSuppliers} THEN Ok("supplier")
    ELSE IF Normalized(kind) \in {TextClient, TextClients} THEN Ok("client")
    ELSE Throw("InvalidPartnerKindError", "kind")

parseKind(value) ==
    IF ~Truthy(value) \/ StripEnds(value, JsWhiteSpace) = <<>> THEN Ok("supplier")
    ELSE normalizePartnerKind(value)

parseOrderBy(value) ==
    IF ~Truthy(value) THEN Ok("sales")
    ELSE IF Normalized(value) = TextSales THEN Ok("sales")
    ELSE IF Normalized(value) = TextQuantity THEN Ok("quantity")
    ELSE Throw("RangeError", "orderBy")

parseSalesChannel(value) ==
    IF ~Truthy(value) \/ StripEnds(value, JsWhiteSpace) = <<>> THEN Ok("all")
    ELSE IF Normalized(value) = AllText THEN Ok("all")
    ELSE IF Normalized(value) = TextDirect THEN Ok("direct")
    ELSE IF Normalized(value) = TextIndirect THEN Ok("indirect")
    ELSE Throw("RangeError", "salesChannel")

parseOptionalPositiveInteger(value) ==
    IF ~Truthy(value) \/ StripEnds(value, JsWhiteSpace) = <<>> THEN Ok(Null)
    ELSE IF ~isFinite(NumberOfText(value)) THEN Throw("RangeError", "limit")
    ELSE IF Trunc(NumberOfText(value)) <= 0 THEN Throw("RangeError", "limit")
    ELSE Ok(Number(Trunc(NumberOfText(value))))

parseOptionalYear(value) ==
    IF ~Truthy(value) \/ StripEnds(value, JsWhiteSpace) = <<>> THEN Ok(Null)
    ELSE IF ~isFinite(NumberOfText(value)) THEN Throw("RangeError", "year")
    ELSE Ok(Number(Trunc(NumberOfText(value))))

\* commercial-responsibles/route.ts (its parseSalesChannel and
\* parseOptionalPositiveInteger are those of top-partners/route.ts).
parseView(value) ==
    IF ~Truthy(value) \/ StripEnds(value, JsWhiteSpace) = <<>> THEN Ok("yearly")
    ELSE IF Normalized(value) = TextYearly THEN Ok("yearly")
    ELSE IF Normalized(value) = TextMonthly THEN Ok("monthly")
    ELSE Throw("RangeError", "view")

parseOrderByOfCommercial(value) ==
    IF ~Truthy(value) \/ StripEnds(value, JsWhiteSpace) = <<>> THEN Ok("sales")
    ELSE IF Normalized(value) = TextSales THEN Ok("sales")
    ELSE IF Normalized(value) = TextQuantity THEN Ok("quantity")
    ELSE IF Normalized(value) = TextName THEN Ok("name")
    ELSE Throw("RangeError", "orderBy")

parseYearOfCommercial(value) ==
    IF ~Truthy(value) \/ StripEnds(value, JsWhiteSpace) = <<>> \/ Normalized(value) = AllText
    THEN Ok(Null)
    ELSE IF ~isFinite(NumberOfText(value)) THEN Throw("RangeError", "year")
    ELSE Ok(Number(Trunc(NumberOfText(value))))

\* most-sold-products: parseYear and parseCategory.
parseYear(value) ==
    IF ~Truthy(value) \/ StripEnds(value, JsWhiteSpace) = <<>> \/ toLowerCase(value) = AllText
    THEN Ok(AllYears)
    ELSE IF \/ ~IsInteger(NumberOfText(value))
            \/ Trunc(NumberOfText(value)) < 1900
            \/ Trunc(NumberOfText(value)) > 2200
    THEN Throw("BadRequestError", "year")
    ELSE Ok(Number(Trunc(NumberOfText(value))))

parseCategory(value) ==
    IF ~Truthy(value) \/ StripEnds(value, JsWhiteSpace) = <<>> \/ toLowerCase(value) = AllText
    THEN Ok(AllText)
    ELSE Ok(StripEnds(value, JsWhiteSpace))

\* dashboard/summary/route.ts
DEFAULT_MONTHS_AGO == 1

parseMonthsAgo(param) ==
    IF ~Truthy(param) THEN Ok(DEFAULT_MONTHS_AGO)
    ELSE IF ~IsInteger(NumberOfText(param)) \/ Trunc(NumberOfText(param)) < 1
    THEN Throw("Error", "monthsAgo")
    ELSE Ok(Trunc(NumberOfText(param)))

\* normalizeYearBound of topPartners.ts and of commercialResponsibles: the
\* year handed in is null or a finite number already truncated.
normalizeYearBound(year) ==
    IF year.kind = "null" THEN Ok(Null)
    ELSE IF year.n < MIN_ALLOWED_YEAR \/ year.n > MAX_ALLOWED_YEAR
    THEN Throw("RangeError", "year")
    ELSE Ok(year)

-----------------------------------------------------------------------------
(* Dashboard summary (part_008, getDashboardSummary).  A stored row carries *)
(* its supplier, its delivery instant and the six summed columns; amounts   *)
(* are whole numbers.  The label of a period is left out.                   *)

safeNumber(input) == IF input.kind = "null" THEN 0 ELSE input.n

\* The first instant of the UTC month counted from year 0.
StartOfUtcMonth(index) == DaysFromCivil(index \div 12, (index % 12) + 1, 1) * 24

UtcMonthIndex(t) == CivilFromDays(t \div 24).year * 12 + (CivilFromDays(t \div 24).month - 1)

getMonthBounds(reference, monthsAgo) ==
    [start |-> StartOfUtcMonth(UtcMonthIndex(reference) - monthsAgo),
     end |-> StartOfUtcMonth(UtcMonthIndex(reference) - monthsAgo + 1)]

getPeriodRanges(monthsAgo, reference) ==
    [currentPeriod |-> getMonthBounds(reference, monthsAgo),
     previousPeriod |-> getMonthBounds(reference, monthsAgo + 1)]

\* SUM(column) over rows: NULL when no row has a value.
SumColumn(rows, column) ==
    IF \A r \in rows : r[column].kind = "null" THEN Null
    ELSE Decimal(SumOver(rows, [r \in rows |-> Coalesce(r[column])]))

RowsWithin(store, start, end) ==
    {r \in store : r.delivery_date >= start /\ r.delivery_date < end}

aggregatePeriod(store, start, end) ==
    [direct_sales |-> SumColumn(RowsWithin(store, start, end), "direct_sales"),
     quantity |-> SumColumn(RowsWithin(store, start, end), "quantity"),
     logistics_cost_altona |->
         SumColumn(RowsWithin(store, start, end), "logistics_cost_altona"),
     commission_altona |-> SumColumn(RowsWithin(store, start, end), "commission_altona"),
     prescriber_commission |->
         SumColumn(RowsWithin(store, start, end), "prescriber_commission"),
     rfa_on_resale_orders |->
         SumColumn(RowsWithin(store, start, end), "rfa_on_resale_orders")]

\* The query of groupTopSupplier: one group per supplier other than '', the
\* first by total_direct_sales descending; among equal totals the store
\* returns any one.  The result is the set of lists the store may return.
SupplierGroups(rows) ==
    {[supplier |-> s,
      total_direct_sales |-> SumColumn({r \in rows : r.supplier = s}, "direct_sales"),
      total_quantity |-> SumColumn({r \in rows : r.supplier = s}, "quantity")] :
        s \in {r.supplier : r \in rows}}

FirstGroups(groups) ==
    {g \in groups : \A h \in groups :
        Coalesce(h.total_direct_sales) <= Coalesce(g.total_direct_sales)}

topSupplierQuery(store, start, end) ==
    LET groups == SupplierGroups({r \in RowsWithin(store, start, end) : r.supplier # <<>>})
    IN  IF groups = {} THEN {<<>>} ELSE {<<g>> : g \in FirstGroups(groups)}

groupTopSupplier(rows) ==
    [i \in 1..Len(SelectSeq(rows, LAMBDA row : Truthy(row.supplier))) |->
        LET row == SelectSeq(rows, LAMBDA r : Truthy(r.supplier))[i]
        IN  [supplier |-> row.supplier,
             total_direct_sales |-> Number(safeNumber(row.total_direct_sales)),
             total_quantity |-> Number(safeNumber(row.total_quantity))]]

computeOperatingCost(sum) ==
    safeNumber(sum.logistics_cost_altona) + safeNumber(sum.commission_altona)
        + safeNumber(sum.prescriber_commission) + safeNumber(sum.rfa_on_resale_orders)

\* (cost / revenue) * 100 when revenue > 0, else null, counted in units of
\* 10^-5 (the stored amounts of the model make the quotient exact to that
\* unit), and the same value rounded to four places, in units of 10^-4.
OperatingShare(cost, revenue) ==
    IF revenue > 0 THEN Number((cost * 100 * FixedPoint) \div revenue) ELSE Null

RoundedShare(cost, revenue) ==
    IF revenue > 0 THEN Number(round(cost * 100, revenue, 4)) ELSE Null

SummaryCard(id, currentValue, previousValue, delta) ==
    [id |-> id, currentValue |-> currentValue, previousValue |-> previousValue,
     delta |-> delta]

SummaryCards(currentSum, previousSum) ==
    <<SummaryCard("totalRevenue",
                  Number(safeNumber(currentSum.direct_sales)),
                  Number(safeNumber(previousSum.direct_sales)),
                  computePercentDelta(Number(safeNumber(currentSum.direct_sales)),
                                      Number(safeNumber(previousSum.direct_sales)))),
      SummaryCard("quantitySold",
                  Number(safeNumber(currentSum.quantity)),
                  Number(safeNumber(previousSum.quantity)),
                  computePercentDelta(Number(safeNumber(currentSum.quantity)),
                                      Number(safeNumber(previousSum.quantity)))),
      SummaryCard("operatingCostShare",
                  RoundedShare(computeOperatingCost(currentSum),
                               safeNumber(currentSum.direct_sales)),
                  RoundedShare(computeOperatingCost(previousSum),
                               safeNumber(previousSum.direct_sales)),
                  computeAbsoluteDelta(
                      OperatingShare(computeOperatingCost(currentSum),
                                     safeNumber(currentSum.direct_sales)),
                      OperatingShare(computeOperatingCost(previousSum),
                                     safeNumber(previousSum.direct_sales))))>>

TopSupplierOf(topSupplierGroup) ==
    IF Len(topSupplierGroup) = 0 THEN Null
    ELSE [kind |-> "supplier",
          supplier |-> topSupplierGroup[1].supplier,
          totalRevenue |-> safeNumber(topSupplierGroup[1].total_direct_sales),
          quantitySold |-> safeNumber(topSupplierGroup[1].total_quantity)]

\* The summary from the results of the three queries.
getDashboardSummary(currentAgg, previousAgg, topSupplierGroup, monthsAgo, referenceDate) ==
    [currentPeriod |-> getPeriodRanges(monthsAgo, referenceDate).currentPeriod,
     previousPeriod |-> getPeriodRanges(monthsAgo, referenceDate).previousPeriod,
     cards |-> SummaryCards(currentAgg, previousAgg),
     topSupplier |-> TopSupplierOf(topSupplierGroup)]

-----------------------------------------------------------------------------
(* Request handling (the GET handlers of app/api/**/route.ts and the        *)
(* assemblers they call).  The parameters of a request are a record of      *)
(* texts, NullText for a parameter the URL does not carry.                  *)

Params(kind, limit, orderBy, minYear, maxYear, salesChannel, year, view, category,
       monthsAgo) ==
    [kind |-> kind, limit |-> limit, orderBy |-> orderBy, minYear |-> minYear,
     maxYear |-> maxYear, salesChannel |-> salesChannel, year |-> year,
     view |-> view, category |-> category, monthsAgo |-> monthsAgo]

\* top-partners: the parsers of GET in its order, then the checks of
\* buildTopPartnersPayload ahead of its first query.  The result is the
\* options the queries run with, or the first error thrown.
TopPartnersOptions(p) ==
    IF ~parseKind(p.kind).ok THEN parseKind(p.kind)
    ELSE IF ~parseOptionalPositiveInteger(p.limit).ok
    THEN parseOptionalPositiveInteger(p.limit)
    ELSE IF ~parseOrderBy(p.orderBy).ok THEN parseOrderBy(p.orderBy)
    ELSE IF ~parseOptionalYear(p.minYear).ok THEN parseOptionalYear(p.minYear)
    ELSE IF ~parseOptionalYear(p.maxYear).ok THEN parseOptionalYear(p.maxYear)
    ELSE IF ~parseSalesChannel(p.salesChannel).ok THEN parseSalesChannel(p.salesChannel)
    ELSE IF ~normalizeYearBound(parseOptionalYear(p.minYear).value).ok
    THEN normalizeYearBound(parseOptionalYear(p.minYear).value)
    ELSE IF ~normalizeYearBound(parseOptionalYear(p.maxYear).value).ok
    THEN normalizeYearBound(parseOptionalYear(p.maxYear).value)
    ELSE IF /\ parseOptionalYear(p.minYear).value.kind # "null"
            /\ parseOptionalYear(p.maxYear).value.kind # "null"
            /\ parseOptionalYear(p.minYear).value.n > parseOptionalYear(p.maxYear).value.n
    THEN Throw("RangeError", "minYear")
    ELSE Ok([kind |-> parseKind(p.kind).value,
             limit |-> normalizeLimit(parseOptionalPositiveInteger(p.limit).value),
             orderBy |-> parseOrderBy(p.orderBy).value,
             minYear |-> parseOptionalYear(p.minYear).value,
             maxYear |-> parseOptionalYear(p.maxYear).value,
             salesChannel |-> parseSalesChannel(p.salesChannel).value])

\* commercial-responsibles: the parsers of GET in its order, then
\* normalizeYearBound of buildCommercialResponsiblesPayload.
CommercialResponsiblesOptions(p) ==
    IF ~parseSalesChannel(p.salesChannel).ok THEN parseSalesChannel(p.salesChannel)
    ELSE IF ~parseYearOfCommercial(p.year).ok THEN parseYearOfCommercial(p.year)
    ELSE IF ~parseView(p.view).ok THEN parseView(p.view)
    ELSE IF ~parseOrderByOfCommercial(p.orderBy).ok THEN parseOrderByOfCommercial(p.orderBy)
    ELSE IF ~parseOptionalPositiveInteger(p.limit).ok
    THEN parseOptionalPositiveInteger(p.limit)
    ELSE IF ~normalizeYearBound(parseYearOfCommercial(p.year).value).ok
    THEN normalizeYearBound(parseYearOfCommercial(p.year).value)
    ELSE Ok([salesChannel |-> parseSalesChannel(p.salesChannel).value,
             year |-> parseYearOfCommercial(p.year).value,
             view |-> parseView(p.view).value,
             orderBy |-> parseOrderByOfCommercial(p.orderBy).value,
             limit |-> normalizeLimitOfRows(parseOptionalPositiveInteger(p.limit).value)])

MostSoldProductsOptions(p) ==
    IF ~parseYear(p.year).ok THEN parseYear(p.year)
    ELSE Ok([year |-> parseYear(p.year).value, category |-> parseCategory(p.category).value])

\* dashboard summary: parseMonthsAgo, then the check of getDashboardSummary.
DashboardSummaryOptions(p) ==
    IF ~parseMonthsAgo(p.monthsAgo).ok THEN parseMonthsAgo(p.monthsAgo)
    ELSE IF parseMonthsAgo(p.monthsAgo).value < 1 THEN Throw("Error", "monthsAgo")
    ELSE Ok([monthsAgo |-> parseMonthsAgo(p.monthsAgo).value])

\* net-margin reads no parameter the payload depends on.
NetMarginOptions(p) == Ok([includeDaily |-> TRUE])

OptionsOf(endpoint, p) ==
    CASE endpoint = "top-partners" -> TopPartnersOptions(p)
      [] endpoint = "commercial-responsibles" -> CommercialResponsiblesOptions(p)
      [] endpoint = "most-sold-products" -> MostSoldProductsOptions(p)
      [] endpoint = "summary" -> DashboardSummaryOptions(p)
      [] endpoint = "net-margin" -> NetMarginOptions(p)

\* Variants of a catch block that tell no error from another, for comparison.
StatusForAnyMessage(error) == 400
StatusForAnyClass(error) == 400

\* The catch block of each GET: the status an error is answered with.
StatusOfTopPartners(error) ==
    IF error.class \in {"InvalidPartnerKindError", "RangeError"} THEN 400 ELSE 500

StatusOfCommercialResponsibles(error) == IF error.class = "RangeError" THEN 400 ELSE 500

StatusOfMostSoldProducts(error) == IF error.class = "BadRequestError" THEN 400 ELSE 500

\* message.includes("monthsAgo")
StatusOfDashboardSummary(error) == IF error.message = "monthsAgo" THEN 400 ELSE 500

StatusOfNetMargin(error) == 500

StatusOf(endpoint, error) ==
    CASE endpoint = "top-partners" -> StatusOfTopPartners(error)
      [] endpoint = "commercial-responsibles" -> StatusOfCommercialResponsibles(error)
      [] endpoint = "most-sold-products" -> StatusOfMostSoldProducts(error)
      [] endpoint = "summary" -> StatusOfDashboardSummary(error)
      [] endpoint = "net-margin" -> StatusOfNetMargin(error)

\* The error of a query the store rejects: an error of the client of the
\* store, whose message tells of the query and names no parameter.
StoreError == Throw("PrismaClientKnownRequestError", "query")

ErrorBody(error) == [error |-> error.message]

\* The queries an assembler awaits one after another, counted from the
\* store it reads: top-partners asks for the per-year rows only when a
\* bucket was built, loadPeriodRows asks only for a non-empty list of names.
QueriesInTurn(endpoint, o) ==
    CASE endpoint = "top-partners" ->
            IF DOMAIN FoldRows(topPartnersQuery(ptStore, o.orderBy, RawLimit(o.limit)),
                               1, <<>>) = {}
            THEN 1 ELSE 2
      [] endpoint = "commercial-responsibles" ->
            IF cleanedAgg(CommercialQueries(stFacts, o).aggregateRows) = <<>>
            THEN 2 ELSE 3
      [] endpoint = "net-margin" -> 1
      [] OTHER -> 0

\* The queries handed to one Promise.all.
QueriesTogether(endpoint) ==
    CASE endpoint = "most-sold-products" -> 3
      [] endpoint = "summary" -> 3
      [] OTHER -> 0

\* The payloads the assembler may return once every query has answered.
PayloadsOf(endpoint, o) ==
    CASE endpoint = "top-partners" ->
            {AssembleTopPartners(topPartnersQuery(ptStore, o.orderBy, RawLimit(o.limit)),
                                 o.limit, o.orderBy)}
      [] endpoint = "commercial-responsibles" ->
            {buildCommercialResponsiblesPayload(CommercialQueries(stFacts, o), stFacts, o)}
      [] endpoint = "most-sold-products" ->
            {buildMostSoldProductsPayload(
                 fetchYearRows(stFacts), fetchCategoryRows(stFacts),
                 buildTopProductsQuery(
                     {f \in stFacts : buildWhereClause(f, o.year, o.category)},
                     windowOrder, outputOrder),
                 o.year, o.category) :
                windowOrder \in {1, -1}, outputOrder \in {1, -1}}
      [] endpoint = "summary" ->
            {getDashboardSummary(
                 aggregatePeriod(smStore,
                                 getPeriodRanges(o.monthsAgo, now).currentPeriod.start,
                                 getPeriodRanges(o.monthsAgo, now).currentPeriod.end),
                 aggregatePeriod(smStore,
                                 getPeriodRanges(o.monthsAgo, now).previousPeriod.start,
                                 getPeriodRanges(o.monthsAgo, now).previousPeriod.end),
                 groupTopSupplier(top), o.monthsAgo, now) :
                top \in topSupplierQuery(
                            smStore,
                            getPeriodRanges(o.monthsAgo, now).currentPeriod.start,
                            getPeriodRanges(o.monthsAgo, now).currentPeriod.end)}
      [] endpoint = "net-margin" ->
            {buildNetMarginPayload(fetched, now, o.includeDaily) :
                fetched \in fetchNetMarginRows(nmStore, subMonths(now, 12))}

-----------------------------------------------------------------------------
(* Environment: the zones a deployment may run in. *)

TimeZones == {-1, 0, 1}

NoKeys == [month |-> <<-1>>, day |-> <<-1>>, week |-> <<-1>>]
NoPayload == [currency |-> "none"]
NoResult == [done |-> FALSE]
NoRequest ==
    [endpoint |-> "none", params |-> <<>>, phase |-> "idle", options |-> Null,
     calls |-> 0, failed |-> FALSE, status |-> 0, body |-> Null]

IdleRanges == rgStart = 0 /\ rgEnd = 0 /\ rgKeys = NoKeys
IdleNetMargin == now = 0 /\ nmStore = {} /\ rawRows = <<>> /\ nmPayload = NoPayload
IdlePartners == ptStore = {} /\ ptRaw = <<>> /\ ptResult = NoResult
IdleAnalytics ==
    /\ stFacts = {}
    /\ msRaw = <<>>
    /\ msResult = NoResult
    /\ crRaw = NoResult
    /\ crResult = NoResult
IdleDeltas == dlCurrent = Null /\ dlPrevious = Null /\ dlResult = NoResult
IdleRequests == smStore = {} /\ rq = NoRequest
IdleSubMonths == sbDate = 0 /\ sbMonths = 0 /\ sbResult = NoResult
IdleOld ==
    /\ IdleRanges /\ IdleNetMargin /\ IdlePartners /\ IdleAnalytics /\ IdleDeltas
    /\ IdleRequests
IdleNormalizers ==
    /\ nzFn = "" /\ nzFallback = 0 /\ nzSum = 0 /\ nzCount = 0 /\ nzLast = NoResult
IdleUploads == upTable = {} /\ upCalls = <<>> /\ upStarted = 0 /\ upLast = {}
IdleChannels ==
    /\ chOrderType = <<>> /\ chChannel = "" /\ chPartners = "" /\ chResponsibles = ""
IdleTopPartners == tpStore = {} /\ tpLimit = 0 /\ tpOrderBy = "" /\ tpResult = NoResult
IdleChannelSums == csFacts = {} /\ csYear = 0 /\ csPayloads = <<>>
IdleWidgets == wgKind = "" /\ wgFilter = 0 /\ wgRequests = <<>> /\ wgDisplay = NoResult
IdleLater ==
    /\ IdleSubMonths /\ IdleNormalizers /\ IdleUploads /\ IdleChannels /\ IdleTopPartners
    /\ IdleChannelSums /\ IdleWidgets

\* What each specification leaves untouched.
OutsideRanges == <<varsNM, varsPt, varsAn, varsDl, varsRq, varsLater>>
OutsideNetMargin == <<varsRg, varsPt, varsAn, varsDl, varsRq, varsLater>>
OutsidePartners == <<tz, varsRg, varsNM, varsAn, varsDl, varsRq, varsLater>>
OutsideAnalytics == <<tz, varsRg, varsNM, varsPt, varsDl, varsRq, varsLater>>
OutsideDeltas == <<tz, varsRg, varsNM, varsPt, varsAn, varsRq, varsLater>>
IdleOutsideRanges ==
    IdleNetMargin /\ IdlePartners /\ IdleAnalytics /\ IdleDeltas /\ IdleRequests /\ IdleLater
IdleOutsideNetMargin ==
    IdleRanges /\ IdlePartners /\ IdleAnalytics /\ IdleDeltas /\ IdleRequests /\ IdleLater
IdleOutsidePartners ==
    tz = 0 /\ IdleRanges /\ IdleNetMargin /\ IdleAnalytics /\ IdleDeltas /\ IdleRequests /\ IdleLater
IdleOutsideAnalytics ==
    tz = 0 /\ IdleRanges /\ IdleNetMargin /\ IdlePartners /\ IdleDeltas /\ IdleRequests /\ IdleLater
IdleOutsideDeltas ==
    tz = 0 /\ IdleRanges /\ IdleNetMargin /\ IdlePartners /\ IdleAnalytics /\ IdleRequests /\ IdleLater

-----------------------------------------------------------------------------
(* Specification SpecRanges: the three range enumerators applied to a pair  *)
(* of instants.                                                             *)

RangeDays == 9
RangeHours == {0, 12, 23}
RangeBaseDay == DaysFromCivil(2023, 12, 27)

RangeInstants == {(RangeBaseDay + k) * 24 + h : k \in 0..RangeDays, h \in RangeHours}

InitRanges ==
    /\ tz \in TimeZones
    /\ rgStart \in RangeInstants
    /\ rgEnd \in RangeInstants
    /\ rgKeys = NoKeys
    /\ IdleOutsideRanges

Enumerate ==
    /\ rgKeys = NoKeys
    /\ rgKeys' = [month |-> generateMonthRangeInclusive(rgStart, rgEnd),
                  day   |-> generateDateRangeInclusive(rgStart, rgEnd),
                  week  |-> generateWeekRangeInclusive(rgStart, rgEnd)]
    /\ UNCHANGED <<tz, rgStart, rgEnd>>
    /\ UNCHANGED OutsideRanges

NextRanges == Enumerate

SpecRanges == InitRanges /\ [][NextRanges]_vars

StrictlyIncreasing(s) == \A i \in 1..(Len(s) - 1) : s[i] < s[i + 1]

\* C3 (as stated): for every start <= end each enumerated key sequence (month,
\* day, week) is strictly increasing, so free of duplicates, and holds the
\* period key of every instant d with start <= d <= end.
C3_RangeKeysCoverEveryInstant ==
    (rgKeys # NoKeys /\ rgStart <= rgEnd) =>
        /\ StrictlyIncreasing(rgKeys.month)
        /\ StrictlyIncreasing(rgKeys.day)
        /\ StrictlyIncreasing(rgKeys.week)
        /\ \A d \in rgStart..rgEnd :
              /\ monthKey(d) \in SeqRange(rgKeys.month)
              /\ dateKey(d) \in SeqRange(rgKeys.day)
              /\ weekStartKey(d) \in SeqRange(rgKeys.week)

-----------------------------------------------------------------------------
(* Specification SpecNetMargin: rows are stored, then one request is        *)
(* answered by buildNetMarginPayload at the instant now.                    *)

MaxRows == 2
NowSpan == 1
NowBaseDay == DaysFromCivil(2024, 3, 31)

\* The request instants: midnight UTC of a Sunday at the end of a long month,
\* and of the days after it.
NowInstants == {(NowBaseDay + k) * 24 : k \in 0..NowSpan}

\* Delivery instants on and around the borders of the trailing windows of the
\* request, and after it.
DeliveryInstants ==
    {subMonths(now, 12) - 1, subMonths(now, 12), subMonths(now, 6),
     subMonths(now, 3), subMonths(now, 1), now, now + 1, now + 24 * 40}

\* Identifier and stored amounts of a row; two shapes share an identifier.
RowShapes ==
    {[transaction_id |-> 1, total_net_margin_eur |-> Decimal(1), sales_altona |-> Null],
     [transaction_id |-> 1, total_net_margin_eur |-> Decimal(2), sales_altona |-> Decimal(3)],
     [transaction_id |-> 2, total_net_margin_eur |-> Decimal(2), sales_altona |-> Decimal(3)]}

TransactionIds == {sh.transaction_id : sh \in RowShapes}

StoredRows ==
    {[transaction_id |-> sh.transaction_id, delivery_date |-> d,
      total_net_margin_eur |-> sh.total_net_margin_eur, sales_altona |-> sh.sales_altona] :
        sh \in RowShapes, d \in DeliveryInstants}

InitNetMargin ==
    /\ tz \in TimeZones
    /\ now \in NowInstants
    /\ nmStore = {}
    /\ rawRows = <<>>
    /\ nmPayload = NoPayload
    /\ IdleOutsideNetMargin

InsertRow ==
    /\ nmPayload = NoPayload
    /\ Cardinality(nmStore) < MaxRows
    /\ \E r \in StoredRows : nmStore' = nmStore \cup {r}
    /\ UNCHANGED <<tz, now, rawRows, nmPayload>>
    /\ UNCHANGED OutsideNetMargin

RequestNetMargin ==
    /\ nmPayload = NoPayload
    /\ \E fetched \in fetchNetMarginRows(nmStore, subMonths(now, 12)) :
          /\ rawRows' = fetched
          /\ nmPayload' = buildNetMarginPayload(fetched, now, TRUE)
    /\ UNCHANGED <<tz, now, nmStore>>
    /\ UNCHANGED OutsideNetMargin

NextNetMargin == InsertRow \/ RequestNetMargin

SpecNetMargin == InitNetMargin /\ [][NextNetMargin]_vars

\* The positions of the fetched list that hold the first row of their identifier.
KeptIndices ==
    {i \in DOMAIN rawRows :
        \A j \in 1..(i - 1) : rawRows[j].transaction_id # rawRows[i].transaction_id}

\* The kept positions delivered within the trailing window of N months.
WindowIndices(N) ==
    {i \in KeptIndices :
        subMonths(now, N) <= rawRows[i].delivery_date /\ rawRows[i].delivery_date <= now}

StoredMargins == [i \in DOMAIN rawRows |-> toFiniteNumber(rawRows[i].total_net_margin_eur, 0)]

PeriodOf(N) ==
    CASE N = 12 -> nmPayload.periods.last_12_months
      [] N = 6  -> nmPayload.periods.last_6_months
      [] N = 3  -> nmPayload.periods.last_3_months
      [] N = 1  -> nmPayload.periods.last_1_month

\* C1: for each trailing window of 12, 6, 3 and 1 months, row_count is the number
\* of de-duplicated rows d with subMonths(now, N) <= d <= now, both ends included,
\* and total_net_margin_eur is the sum of the stored margins of exactly those rows.
C1_WindowTotals ==
    nmPayload # NoPayload =>
        \A N \in {12, 6, 3, 1} :
            /\ PeriodOf(N).row_count = Cardinality(WindowIndices(N))
            /\ PeriodOf(N).total_net_margin_eur = SumOver(WindowIndices(N), StoredMargins)

\* C1 witness: a payload over one row delivered exactly at the start of the
\* 12-month window and one delivered exactly at now; the first counts in the
\* 12-month window only, the second in every window.
C1_RowsOnBothBorders ==
    /\ nmPayload # NoPayload
    /\ Len(rawRows) = 2
    /\ rawRows[1].delivery_date = subMonths(now, 12)
    /\ rawRows[2].delivery_date = now
    /\ rawRows[1].transaction_id # rawRows[2].transaction_id
    /\ nmPayload.periods.last_12_months.row_count = 2
    /\ nmPayload.periods.last_12_months.total_net_margin_eur = 3
    /\ nmPayload.periods.last_1_month.row_count = 1

\* The sum of the stored margins of the kept rows whose month key is k.
MonthSum(k) ==
    SumOver({i \in KeptIndices : monthKey(rawRows[i].delivery_date) = k}, StoredMargins)

\* C2 (as stated): monthly_series_12m has exactly 12 entries, one per calendar
\* month of the trailing 12-month window, and each entry's total is the sum of
\* the stored margins of the de-duplicated rows delivered in that month.
C2_TwelveMonthlyEntries ==
    nmPayload # NoPayload =>
        /\ Len(nmPayload.monthly_series_12m) = 12
        /\ \A i \in DOMAIN nmPayload.monthly_series_12m :
              LET point == nmPayload.monthly_series_12m[i]
              IN  /\ point.key \in SeqRange(generateMonthRangeInclusive(subMonths(now, 12), now))
                  /\ point.total_net_margin_eur = MonthSum(point.key)

\* How often the identifier id occurs in the sequence of identifiers ids.
Occurrences(ids, id) == Cardinality({i \in DOMAIN ids : ids[i] = id})

FetchedIds == [i \in DOMAIN rawRows |-> rawRows[i].transaction_id]

\* C4: the aggregated rows (debug_rows shows them) have pairwise distinct
\* identifiers, each is the earliest-delivered fetched row of its identifier,
\* duplicate_count is the number of fetched rows less the number of aggregated
\* rows, and duplicate_transaction_ids holds the identifier of every dropped row,
\* once per dropped row.
C4_KeepFirstDedup ==
    nmPayload # NoPayload =>
        LET kept == nmPayload.debug_rows
            dups == nmPayload.meta.duplicate_transaction_ids
        IN  /\ \A i, j \in DOMAIN kept :
                  i # j => kept[i].transaction_id # kept[j].transaction_id
            /\ \A i \in DOMAIN kept : \E k \in DOMAIN rawRows :
                  /\ rawRows[k].transaction_id = kept[i].transaction_id
                  /\ rawRows[k].delivery_date = kept[i].delivery_date
                  /\ kept[i].stored_margin = StoredMargins[k]
                  /\ \A m \in 1..(k - 1) :
                        rawRows[m].transaction_id # kept[i].transaction_id
            /\ \A i \in DOMAIN kept : \A k \in DOMAIN rawRows :
                  rawRows[k].transaction_id = kept[i].transaction_id
                      => kept[i].delivery_date <= rawRows[k].delivery_date
            /\ nmPayload.meta.duplicate_count = Len(rawRows) - Len(kept)
            /\ nmPayload.periods.last_12_months.row_count <= Len(kept)
            /\ Len(dups) = nmPayload.meta.duplicate_count
            /\ \A id \in TransactionIds :
                  Occurrences(dups, id) + Occurrences([i \in DOMAIN kept |-> kept[i].transaction_id], id)
                      = Occurrences(FetchedIds, id)

\* C4 witness: two fetched rows share an identifier and were delivered at
\* different instants; the earlier one is aggregated, the later one is reported.
C4_LaterDuplicateDropped ==
    /\ nmPayload # NoPayload
    /\ Len(rawRows) = 2
    /\ rawRows[1].transaction_id = rawRows[2].transaction_id
    /\ rawRows[1].delivery_date < rawRows[2].delivery_date
    /\ Len(nmPayload.debug_rows) = 1
    /\ nmPayload.debug_rows[1].delivery_date = rawRows[1].delivery_date
    /\ nmPayload.meta.duplicate_count = 1
    /\ nmPayload.meta.duplicate_transaction_ids = <<rawRows[1].transaction_id>>

-----------------------------------------------------------------------------
(* Specification SpecPartners: fact rows are stored, then one request is    *)
(* answered by buildTopPartnersPayload.                                     *)

MaxFacts == 3

\* Partner names as entered: "du", "DU", "DU " with a trailing space, "du"
\* with a precomposed and with a combining circumflex, "d1", and two names
\* without any letter or digit, "-" and "--".
StoredPartnerNames ==
    {<<100, 117>>, <<68, 85>>, <<68, 85, 32>>, <<100, 251>>, <<100, 117, 770>>,
     <<100, 49>>, <<45>>, <<45, 45>>}

FactAmounts == {[quantity |-> 1, sales |-> 2], [quantity |-> 2, sales |-> 1]}

PartnerFacts ==
    {[partner |-> n, quantity |-> a.quantity, sales |-> a.sales] :
        n \in StoredPartnerNames, a \in FactAmounts}

LimitOptions == {Null, Number(1)}
OrderByOptions == {"sales", "quantity"}

InitPartners ==
    /\ ptStore = {}
    /\ ptRaw = <<>>
    /\ ptResult = NoResult
    /\ IdleOutsidePartners

InsertFact ==
    /\ ptResult = NoResult
    /\ Cardinality(ptStore) < MaxFacts
    /\ \E f \in PartnerFacts : ptStore' = ptStore \cup {f}
    /\ UNCHANGED <<ptRaw, ptResult>>
    /\ UNCHANGED OutsidePartners

RequestTopPartners ==
    /\ ptResult = NoResult
    /\ \E limit \in LimitOptions, orderBy \in OrderByOptions :
          /\ ptRaw' = topPartnersQuery(ptStore, orderBy, RawLimit(normalizeLimit(limit)))
          /\ ptResult' = AssembleTopPartners(ptRaw', normalizeLimit(limit), orderBy)
    /\ UNCHANGED ptStore
    /\ UNCHANGED OutsidePartners

NextPartners == InsertFact \/ RequestTopPartners

SpecPartners == InitPartners /\ [][NextPartners]_vars

\* Display name and totals of every bucket of a map.
BucketSummary(map) ==
    [k \in DOMAIN map |->
        [displayName |-> map[k].displayName,
         totalQuantity |-> map[k].totalQuantity,
         totalSalesValue |-> map[k].totalSalesValue]]

\* C5 (as stated): folding the rows of the aggregate query in any order gives
\* every bucket the same display name and the same totals as the fold the
\* request made; so reducing the names of a bucket with
\* choosePreferredDisplayName gives one name whatever their order.
C5_FoldOrderIndependent ==
    ptResult.done =>
        \A p \in Orderings(SeqRange(ptRaw)) :
            BucketSummary(FoldRows(p, 1, <<>>)) = BucketSummary(ptResult.bucketMap)

\* What a code unit of the stored names stands for once diacritics, case and
\* punctuation are set aside: a lower-case letter or a digit, or nothing.
PlainUnit(c) ==
    CASE c \in {100, 68}           -> <<100>>
      [] c \in {117, 85, 251, 219} -> <<117>>
      [] c = 49                    -> <<49>>
      [] OTHER                     -> <<>>

RECURSIVE PlainLetters(_, _)
PlainLetters(str, i) ==
    IF i > Len(str) THEN <<>> ELSE PlainUnit(str[i]) \o PlainLetters(str, i + 1)

\* Rows i and j of the aggregate query went into one bucket.
SameBucket(i, j) ==
    \E k \in DOMAIN ptResult.bucketMap :
        /\ normalizePartnerName(ptRaw[i].partner_name) \in ptResult.bucketMap[k].variants
        /\ normalizePartnerName(ptRaw[j].partner_name) \in ptResult.bucketMap[k].variants

KeyOfRow(i) == canonicalizePartnerKey(ptRaw[i].partner_name)

\* The key is idempotent and is the plain letters and digits of the name.
KeysArePlainLetters ==
    \A i \in DOMAIN ptRaw :
        /\ canonicalizePartnerKey(KeyOfRow(i)) = KeyOfRow(i)
        /\ KeyOfRow(i) = PlainLetters(ptRaw[i].partner_name, 1)

\* Each bucket's totals are the sums over the rows that went into it.
BucketsSumTheirRows ==
    \A k \in DOMAIN ptResult.bucketMap :
        LET members == {i \in DOMAIN ptRaw :
                normalizePartnerName(ptRaw[i].partner_name) \in ptResult.bucketMap[k].variants}
        IN  /\ ptResult.bucketMap[k].totalQuantity =
                  SumOver(members, [i \in members |-> ptRaw[i].total_quantity.n])
            /\ ptResult.bucketMap[k].totalSalesValue =
                  SumOver(members, [i \in members |-> ptRaw[i].total_sales.n])

\* C6 (amended): canonicalizePartnerKey is idempotent and blind to diacritics,
\* case and characters other than letters and digits, and two names returned by
\* the aggregate query go into the same bucket exactly when their keys are
\* equal and not empty; a name whose key is empty goes into no bucket.
C6_SameBucketIffSameNonEmptyKey ==
    ptResult.done =>
        /\ KeysArePlainLetters
        /\ BucketsSumTheirRows
        /\ \A i, j \in DOMAIN ptRaw :
              i # j => (SameBucket(i, j) <=> (KeyOfRow(i) = KeyOfRow(j) /\ KeyOfRow(i) # <<>>))
        /\ \A i \in DOMAIN ptRaw : SameBucket(i, i) <=> KeyOfRow(i) # <<>>

\* C6 (as stated): two names returned by the aggregate query go into the same
\* bucket exactly when their keys are equal.
C6_SameBucketIffSameKey ==
    ptResult.done =>
        /\ KeysArePlainLetters
        /\ \A i, j \in DOMAIN ptRaw :
              i # j => (SameBucket(i, j) <=> KeyOfRow(i) = KeyOfRow(j))

\* C6 witness: of three names returned, two that differ in case and accent
\* share a bucket and the third, which has no letter or digit, is in none.
C6_VariantsMergedNamelessSkipped ==
    /\ ptResult.done
    /\ Len(ptRaw) = 3
    /\ \E i, j, m \in DOMAIN ptRaw :
          /\ ptRaw[i].partner_name = <<68, 85>>
          /\ ptRaw[j].partner_name = <<100, 251>>
          /\ SameBucket(i, j)
          /\ KeyOfRow(m) = <<>>
          /\ ~SameBucket(m, m)
    /\ DOMAIN ptResult.bucketMap = {<<100, 117>>}

-----------------------------------------------------------------------------
(* Specification SpecAnalytics: transactions are stored, then the           *)
(* most-sold-products view and the commercial-responsibles view each        *)
(* answer at most one request.  Both only read the store, so one order of   *)
(* the two answers reaches every pair of them.                              *)

SampleSize == 10

Hour(y, m, d, h) == DaysFromCivil(y, m, d) * 24 + h

\* Categories "A", "B", "B " with a trailing space and " "; families "F" and "G"; references "1" to "5";
\* responsibles "an", "an " with a trailing space, "an" followed by a tab,
\* "bo", "cy" and " "; the order types "Permanent direct" and "Stock".
CatA == <<65>>
CatB == <<66>>
CatBSpace == <<66, 32>>
Blank == <<32>>
FamF == <<70>>
FamG == <<71>>
An == <<97, 110>>
AnSpace == <<97, 110, 32>>
AnTab == <<97, 110, 9>>
Bo == <<98, 111>>
Cy == <<99, 121>>
PermanentDirect ==
    <<80, 101, 114, 109, 97, 110, 101, 110, 116, 32, 100, 105, 114, 101, 99, 116>>
Stock == <<83, 116, 111, 99, 107>>

Transaction(id, category, family, reference, responsible, orderType,
            quantity, directSales, salesAltona, deliveryDate) ==
    [id |-> id, product_category |-> category, product_family |-> family,
     product_reference |-> reference, commercial_responsible |-> responsible,
     order_type |-> orderType, quantity |-> quantity,
     direct_sales |-> Decimal(directSales), sales_altona |-> Decimal(salesAltona),
     delivery_date |-> deliveryDate]

\* The transactions a run may store: seven products of category A, two of
\* them one reference under two families and one without a reference, with
\* equal, zero, missing and negative quantities; two rows of one product
\* that cancel out, entered under the categories "B" and "B "; a row without
\* category.  The same rows carry
\* the responsibles, under several spellings, over four months of two years.
SalesSample ==
    <<Transaction(1, CatA, FamF, <<49>>, An, Stock, Decimal(5), 0, 10,
                  Number(Hour(2023, 1, 10, 9))),
      Transaction(2, CatA, FamF, <<50>>, AnSpace, PermanentDirect, Decimal(5), 20, 0,
                  Number(Hour(2023, 2, 10, 9))),
      Transaction(3, CatA, FamF, <<51>>, Bo, Stock, Decimal(3), 0, 30,
                  Number(Hour(2023, 1, 20, 9))),
      Transaction(4, CatA, FamG, <<51>>, An, Stock, Decimal(3), 0, -30,
                  Number(Hour(2024, 1, 1, 0))),
      Transaction(5, CatA, FamF, <<52>>, Bo, PermanentDirect, Decimal(-3), 5, 0,
                  Number(Hour(2023, 12, 31, 23))),
      Transaction(6, CatA, FamF, <<53>>, AnTab, Stock, Null, 0, 7,
                  Number(Hour(2023, 3, 5, 9))),
      Transaction(7, CatA, FamF, NullText, NullText, Stock, Decimal(1), 0, 1,
                  Number(Hour(2023, 1, 10, 9))),
      Transaction(8, CatBSpace, FamF, <<49>>, An, Stock, Decimal(9), 0, 9,
                  Number(Hour(2023, 1, 25, 9))),
      Transaction(9, CatB, FamF, <<49>>, Bo, Stock, Decimal(-9), 0, -9, Null),
      Transaction(10, Blank, FamF, <<49>>, Blank, Stock, Decimal(4), 0, 4,
                  Number(Hour(2023, 1, 10, 9))),
      Transaction(11, CatB, FamG, <<50>>, Cy, Stock, Decimal(2), 0, 2,
                  Number(Hour(2022, 6, 1, 9)))>>

SampleFacts == {SalesSample[i] : i \in 1..Min2(SampleSize, Len(SalesSample))}

YearFilters == {AllYears, Number(2023)}
CategoryFilters == {AllText, CatA}
StoreOrders == {1, -1}

CommercialOptions(salesChannel, year, view, orderBy, limit) ==
    [salesChannel |-> salesChannel, year |-> year, view |-> view,
     orderBy |-> orderBy, limit |-> limit]

CommercialRequests ==
    {CommercialOptions("all", Null, "yearly", "sales", Null),
     CommercialOptions("all", Null, "monthly", "name", Null),
     CommercialOptions("all", Number(2023), "monthly", "quantity", Number(1)),
     CommercialOptions("indirect", Null, "yearly", "sales", Null),
     CommercialOptions("direct", Number(2023), "yearly", "name", Number(0)),
     CommercialOptions("all", Null, "monthly", "sales", Number(1))}

InitAnalytics ==
    /\ stFacts = {}
    /\ msRaw = <<>>
    /\ msResult = NoResult
    /\ crRaw = NoResult
    /\ crResult = NoResult
    /\ IdleOutsideAnalytics

Unanswered == msResult = NoResult /\ crResult = NoResult

StoreTransaction ==
    /\ Unanswered
    /\ \E f \in SampleFacts \ stFacts : stFacts' = stFacts \cup {f}
    /\ UNCHANGED <<msRaw, msResult, crRaw, crResult>>
    /\ UNCHANGED OutsideAnalytics

RequestMostSoldProducts ==
    /\ Unanswered
    /\ \E year \in YearFilters, category \in CategoryFilters,
          windowOrder \in StoreOrders, outputOrder \in StoreOrders :
          /\ msRaw' = buildTopProductsQuery(
                          {f \in stFacts : buildWhereClause(f, year, category)},
                          windowOrder, outputOrder)
          /\ msResult' = buildMostSoldProductsPayload(
                             fetchYearRows(stFacts), fetchCategoryRows(stFacts),
                             msRaw', year, category)
    /\ UNCHANGED <<stFacts, crRaw, crResult>>
    /\ UNCHANGED OutsideAnalytics

RequestCommercialResponsibles ==
    /\ crResult = NoResult
    /\ \E o \in CommercialRequests :
          /\ crRaw' = CommercialQueries(stFacts, o)
          /\ crResult' = buildCommercialResponsiblesPayload(crRaw', stFacts, o)
    /\ UNCHANGED <<stFacts, msRaw, msResult>>
    /\ UNCHANGED OutsideAnalytics

NextAnalytics ==
    StoreTransaction \/ RequestMostSoldProducts \/ RequestCommercialResponsibles

SpecAnalytics == InitAnalytics /\ [][NextAnalytics]_vars

\* The stored rows the filters of the answered most-sold-products request
\* keep, the products (family, reference) of a category among them, and the
\* quantity sold of one product.
MatchingFacts ==
    {f \in stFacts : buildWhereClause(f, msResult.filters.year, msResult.filters.category)}

ProductsOf(c) ==
    {<<f.product_family, f.product_reference>> :
        f \in {g \in MatchingFacts : g.product_category = c}}

QuantitySold(c, p) ==
    LET sold == {f \in MatchingFacts :
                    f.product_category = c /\ <<f.product_family, f.product_reference>> = p}
    IN  SumOver(sold, [f \in sold |-> IF f.quantity = Null THEN 0 ELSE f.quantity.n])

\* The positions of the result rows of category c, the product a result row
\* stands for (its reference as stored, which the row shows as "N/A" when
\* missing), and whether the key of (q1, r1) comes no later than that of (q2, r2).
RowsOfCategory(c) == {i \in DOMAIN msResult.rows : msResult.rows[i].productCategory = c}

ProductAt(i) == <<msResult.rows[i].productFamily, msRaw[i].product_reference>>

InRankOrder(q1, r1, q2, r2) == q1 > q2 \/ (q1 = q2 /\ SqlCompareText(r1, r2) <= 0)

\* C7: in the most-sold-products result every category with n distinct
\* products among the matching rows has exactly min(5, n) rows, ranked
\* 1..min(5, n) by total quantity descending and, on equal quantity, by product
\* reference ascending; the rows are the category's own best: no product left
\* out comes ahead of one returned, whatever the other categories hold.
C7_TopFivePerCategory ==
    msResult.done =>
        /\ Len(msRaw) = Len(msResult.rows)
        /\ \A i \in DOMAIN msResult.rows :
              msResult.rows[i].productCategory
                 \in {f.product_category : f \in MatchingFacts}
        /\ \A c \in {f.product_category : f \in MatchingFacts} :
              /\ Cardinality(RowsOfCategory(c)) = Min2(5, Cardinality(ProductsOf(c)))
              /\ {msResult.rows[i].rankWithinCategory : i \in RowsOfCategory(c)}
                    = 1..Min2(5, Cardinality(ProductsOf(c)))
              /\ \A i \in RowsOfCategory(c) :
                    /\ ProductAt(i) \in ProductsOf(c)
                    /\ msResult.rows[i].totalQuantity = QuantitySold(c, ProductAt(i))
              /\ \A i, j \in RowsOfCategory(c) :
                    msResult.rows[i].rankWithinCategory < msResult.rows[j].rankWithinCategory
                       => InRankOrder(msResult.rows[i].totalQuantity, ProductAt(i)[2],
                                      msResult.rows[j].totalQuantity, ProductAt(j)[2])
              /\ \A i \in RowsOfCategory(c) :
                    \A p \in ProductsOf(c) \ {ProductAt(j) : j \in RowsOfCategory(c)} :
                        InRankOrder(msResult.rows[i].totalQuantity, ProductAt(i)[2],
                                    QuantitySold(c, p), p[2])

\* C7 witness: category A holds seven products, five of them returned, while
\* the one product of category B is returned with rank 1 although it sold less
\* than a product of A that is left out; two products of A are ranked on
\* their reference alone.
C7_CutoffPerCategory ==
    /\ msResult.done
    /\ Cardinality(ProductsOf(CatA)) = 7
    /\ Cardinality(RowsOfCategory(CatA)) = 5
    /\ \E i \in RowsOfCategory(CatB), p \in ProductsOf(CatA) :
          /\ msResult.rows[i].rankWithinCategory = 1
          /\ p \notin {ProductAt(j) : j \in RowsOfCategory(CatA)}
          /\ QuantitySold(CatA, p) > msResult.rows[i].totalQuantity
    /\ \E i, j \in RowsOfCategory(CatA) :
          /\ msResult.rows[i].totalQuantity = msResult.rows[j].totalQuantity
          /\ msResult.rows[i].rankWithinCategory + 1 = msResult.rows[j].rankWithinCategory
          /\ SqlCompareText(ProductAt(i)[2], ProductAt(j)[2]) < 0

\* The quantity of a category over the rows the filters keep, and the totals
\* of the rows a commercial-responsibles payload returns.
CategoryQuantity(c) ==
    LET sold == {f \in MatchingFacts : f.product_category = c}
    IN  SumOver(sold, [f \in sold |-> IF f.quantity = Null THEN 0 ELSE f.quantity.n])

ReturnedSalesValue ==
    SumSeq([i \in DOMAIN crResult.rows |-> crResult.rows[i].totalSalesValue], 1)

ReturnedQuantity ==
    SumSeq([i \in DOMAIN crResult.rows |-> crResult.rows[i].totalQuantity], 1)

\* Whether share is the quotient value / total.
IsQuotient(share, value, total) ==
    /\ share.kind = "ratio"
    /\ share.den # 0
    /\ share.num * total = value * share.den

ShareUnlessNotPositive(share, value, total) ==
    IF total > 0 THEN IsQuotient(share, value, total) ELSE share = Null

ShareUnlessZero(share, value, total) ==
    IF total = 0 THEN share = Null ELSE IsQuotient(share, value, total)

\* C8, amended: every share of the two views is null when its denominator
\* total is zero or negative, and is value / total when the total is positive.
C8_ShareNullUnlessTotalPositive ==
    /\ msResult.done =>
          \A i \in DOMAIN msResult.rows :
              ShareUnlessNotPositive(msResult.rows[i].shareWithinCategory,
                                     QuantitySold(msResult.rows[i].productCategory, ProductAt(i)),
                                     CategoryQuantity(msResult.rows[i].productCategory))
    /\ crResult.done =>
          \A i \in DOMAIN crResult.rows :
              /\ ShareUnlessNotPositive(crResult.rows[i].shareOfSalesValue,
                                        crResult.rows[i].totalSalesValue, ReturnedSalesValue)
              /\ ShareUnlessNotPositive(crResult.rows[i].shareOfQuantity,
                                        crResult.rows[i].totalQuantity, ReturnedQuantity)

\* C8 as stated: every share of the two views is null when its denominator
\* total is 0 and is value / total for every other total.
C8_ShareNullOnlyWhenTotalZero ==
    /\ msResult.done =>
          \A i \in DOMAIN msResult.rows :
              ShareUnlessZero(msResult.rows[i].shareWithinCategory,
                              QuantitySold(msResult.rows[i].productCategory, ProductAt(i)),
                              CategoryQuantity(msResult.rows[i].productCategory))
    /\ crResult.done =>
          \A i \in DOMAIN crResult.rows :
              /\ ShareUnlessZero(crResult.rows[i].shareOfSalesValue,
                                 crResult.rows[i].totalSalesValue, ReturnedSalesValue)
              /\ ShareUnlessZero(crResult.rows[i].shareOfQuantity,
                                 crResult.rows[i].totalQuantity, ReturnedQuantity)

\* C8 witness: both views have answered; a product that sold has a null share
\* in a category whose quantities cancel out, another category's product has
\* a quotient, and a responsible has a quotient as share of sales value next
\* to a null share of a negative quantity total.
C8_NullAndQuotientShares ==
    /\ msResult.done
    /\ crResult.done
    /\ \E i \in DOMAIN msResult.rows :
          /\ msResult.rows[i].shareWithinCategory = Null
          /\ msResult.rows[i].categoryTotalQuantity = 0
          /\ msResult.rows[i].totalQuantity # 0
    /\ \E i \in DOMAIN msResult.rows :
          /\ msResult.rows[i].shareWithinCategory.kind = "ratio"
          /\ msResult.rows[i].categoryTotalQuantity > 0
    /\ \E i \in DOMAIN crResult.rows :
          /\ crResult.rows[i].shareOfSalesValue.kind = "ratio"
          /\ crResult.rows[i].shareOfQuantity = Null
          /\ crResult.totals.quantity < 0

\* The stored rows behind one point of the series of a responsible: those the
\* base filters of the answered request keep, entered under that name (spaces
\* around it aside), and delivered in the year and, in the monthly view, the
\* month of the point.
OwnRows(name, point) ==
    {f \in stFacts :
        /\ buildBaseFilters(f, crResult.filters.year.selected, crResult.filters.salesChannel)
        /\ SqlTrim(f.commercial_responsible) = name
        /\ YearOfDelivery(f) = point.year
        /\ crResult.filters.view = "monthly" => MonthOfDelivery(f) = point.month.n}

OwnSalesValue(name, point) ==
    SumOver(OwnRows(name, point),
            [f \in OwnRows(name, point) |->
                resolveSalesValueExpression(f, crResult.filters.salesChannel)])

OwnQuantity(name, point) ==
    SumOver(OwnRows(name, point),
            [f \in OwnRows(name, point) |-> IF f.quantity = Null THEN 0 ELSE f.quantity.n])

Earlier(p, q) == p.year < q.year \/ (p.year = q.year /\ p.month.n < q.month.n)

ChronologicalWithOwnDeltas(name, series) ==
    /\ \A k \in 1..(Len(series) - 1) : Earlier(series[k], series[k + 1])
    /\ \A k, l \in DOMAIN series : k # l => series[k].period # series[l].period
    /\ \A k \in DOMAIN series :
          /\ series[k].salesValue = OwnSalesValue(name, series[k])
          /\ series[k].quantity = OwnQuantity(name, series[k])
          /\ k = 1 => /\ series[k].deltaSalesValue = Null
                      /\ series[k].deltaQuantity = Null
          /\ k > 1 => /\ series[k].deltaSalesValue
                            = Number(series[k].salesValue - series[k - 1].salesValue)
                      /\ series[k].deltaQuantity
                            = Number(series[k].quantity - series[k - 1].quantity)

\* C10: every series buildSeriesMap hands to the payload is strictly ascending by
\* (year, month) without a repeated period; its first point has null deltas
\* and every later point's deltas are its own values minus those of the point
\* just before it in the same series, all values being sums over the rows of
\* that responsible alone.
C10_SeriesDeltasWithinOwnSeries ==
    crResult.done =>
        \A i \in DOMAIN crResult.rows :
            ChronologicalWithOwnDeltas(crResult.rows[i].commercialResponsible,
                                       crResult.rows[i].series)

\* C10 witness: a monthly answer holds two responsibles with a series each;
\* one series has three points over two years, the first of them the sum of
\* two stored rows, and its third delta differs from the difference to the
\* first point.
C10_TwoSeriesThreePoints ==
    /\ crResult.done
    /\ crResult.filters.view = "monthly"
    /\ \E i, j \in DOMAIN crResult.rows :
          /\ crResult.rows[i].commercialResponsible # crResult.rows[j].commercialResponsible
          /\ Len(crResult.rows[j].series) >= 2
          /\ Len(crResult.rows[i].series) = 3
          /\ crResult.rows[i].series[1].year < crResult.rows[i].series[3].year
          /\ Cardinality(OwnRows(crResult.rows[i].commercialResponsible,
                                 crResult.rows[i].series[1])) = 2
          /\ crResult.rows[i].series[3].deltaSalesValue
                # Number(crResult.rows[i].series[3].salesValue
                            - crResult.rows[i].series[1].salesValue)

-----------------------------------------------------------------------------
(* Specification SpecDeltas: one of the two delta functions of the          *)
(* dashboard summary is applied to a pair of values.                        *)

\* Values of everyday size, and pairs of large values a small step apart.
SmallValues == {0, 1, -1, 3, 90, 100, 110, -100}
DeltaInputs == {Null, Infinity, NaN} \cup {Number(v) : v \in SmallValues}
CloseValues == {2999999, 3000000, 3000001}
DeltaCases ==
    (DeltaInputs \X DeltaInputs)
       \cup {<<Number(c), Number(p)>> : c \in CloseValues, p \in CloseValues}
       \cup {<<Number(0 - c), Number(0 - p)>> : c \in CloseValues, p \in CloseValues}

InitDeltas ==
    /\ \E case \in DeltaCases : dlCurrent = case[1] /\ dlPrevious = case[2]
    /\ dlResult = NoResult
    /\ IdleOutsideDeltas

Delivered(mode, delta) == [done |-> TRUE, mode |-> mode, delta |-> delta]

ComputePercentDelta ==
    /\ dlResult = NoResult
    /\ dlResult' = Delivered("percent", computePercentDelta(dlCurrent, dlPrevious))
    /\ UNCHANGED <<dlCurrent, dlPrevious>>
    /\ UNCHANGED OutsideDeltas

ComputeAbsoluteDelta ==
    /\ dlResult = NoResult
    /\ dlResult' = Delivered("absolute", computeAbsoluteDelta(dlCurrent, dlPrevious))
    /\ UNCHANGED <<dlCurrent, dlPrevious>>
    /\ UNCHANGED OutsideDeltas

NextDeltas == ComputePercentDelta \/ ComputeAbsoluteDelta

SpecDeltas == InitDeltas /\ [][NextDeltas]_vars

\* Whether value, counted in units of 10^-4, is num / den (den > 0) rounded
\* to four decimals, a half going up.
RoundedToFour(value, num, den) ==
    /\ 2 * (value * den - 10000 * num) <= den
    /\ 2 * (value * den - 10000 * num) > 0 - den

BothFinite == isFinite(dlCurrent) /\ isFinite(dlPrevious)

\* What a DeltaSummary must be for the exact delta num / den.
DeltaFollowsExact(delta, mode, num, den) ==
    /\ delta # Null
    /\ delta.mode = mode
    /\ RoundedToFour(delta.value, num, den)
    /\ delta.direction = "up" <=> num >= 0
    /\ delta.direction = "down" <=> num < 0

\* C9, amended: computePercentDelta returns null when either value is null,
\* previous is 0 or not finite, or current is not finite; otherwise its value
\* is (current - previous) / |previous| * 100 rounded to four decimals, with
\* mode "percent".  In both modes the direction is "up" exactly when the
\* unrounded delta is >= 0 and "down" exactly when it is < 0.
C9_DirectionFollowsUnroundedDelta ==
    dlResult.done =>
        IF dlResult.mode = "percent"
        THEN IF BothFinite /\ dlPrevious.n # 0
             THEN DeltaFollowsExact(dlResult.delta, "percent",
                                    (dlCurrent.n - dlPrevious.n) * 100, Abs(dlPrevious.n))
             ELSE dlResult.delta = Null
        ELSE IF BothFinite
             THEN DeltaFollowsExact(dlResult.delta, "absolute",
                                    dlCurrent.n - dlPrevious.n, FixedPoint)
             ELSE dlResult.delta = Null

\* C9 as stated, for a finite current value: computePercentDelta returns null
\* when previous is 0 or not finite and otherwise the percent change (to the
\* four decimals reported) with mode "percent"; in both modes the direction is
\* "up" exactly when the reported value is >= 0 and "down" exactly when it
\* is < 0, so a reported zero is always "up".
C9_DirectionFollowsReportedValue ==
    dlResult.done /\ isFinite(dlCurrent) =>
        /\ dlResult.mode = "percent" =>
              IF isFinite(dlPrevious) /\ dlPrevious.n # 0
              THEN /\ dlResult.delta # Null
                   /\ dlResult.delta.mode = "percent"
                   /\ RoundedToFour(dlResult.delta.value,
                                    (dlCurrent.n - dlPrevious.n) * 100, Abs(dlPrevious.n))
              ELSE dlResult.delta = Null
        /\ dlResult.delta # Null =>
              /\ dlResult.delta.direction = "up" <=> dlResult.delta.value >= 0
              /\ dlResult.delta.direction = "down" <=> dlResult.delta.value < 0

\* C9 witness: a percent delta of a value one step below a previous value of
\* three millions is reported as zero with direction "down".
C9_SmallDropReportedAsZeroDown ==
    /\ dlResult.done
    /\ dlResult.mode = "percent"
    /\ dlPrevious = Number(3000000)
    /\ dlCurrent = Number(2999999)
    /\ dlResult.delta # Null
    /\ dlResult.delta.value = 0
    /\ dlResult.delta.direction = "down"

-----------------------------------------------------------------------------
(* Sales channels of the commercial-responsibles view (SpecAnalytics).      *)

\* order_type is TEXT NOT NULL in the store, so every stored row has one.
IsIndirect(f) == f.order_type \in INDIRECT_ORDER_TYPES

SelectedBy(channel, year) == {f \in stFacts : buildBaseFilters(f, year, channel)}

\* The rows of one channel among those the other filters keep, by the
\* definition of the channels.
OfChannel(channel, year) ==
    {f \in SelectedBy("all", year) :
        \/ channel = "all"
        \/ channel = "indirect" /\ IsIndirect(f)
        \/ channel = "direct" /\ ~IsIndirect(f)}

QuantityOf(facts) == SumOver(facts, [f \in facts |-> Coalesce(f.quantity)])

\* C11: under the same other filters the rows selected by "indirect" are
\* those whose order_type is in the allow-list and the rows selected by
\* "direct" are those whose order_type is not, so the two selections are
\* disjoint and their union is the selection of "all"; the groups a request
\* returns sum exactly the rows of its channel.
C11_ChannelFilterPartitions ==
    /\ \A year \in {Null, Number(2023)} :
          /\ SelectedBy("indirect", year) = OfChannel("indirect", year)
          /\ SelectedBy("direct", year) = OfChannel("direct", year)
          /\ SelectedBy("direct", year) \cap SelectedBy("indirect", year) = {}
          /\ SelectedBy("direct", year) \cup SelectedBy("indirect", year)
                = SelectedBy("all", year)
    /\ crResult.done =>
          \A i \in DOMAIN crRaw.aggregateRows :
             crRaw.aggregateRows[i].total_quantity.n =
                QuantityOf({f \in OfChannel(crResult.filters.salesChannel,
                                            crResult.filters.year.selected) :
                               SqlTrim(f.commercial_responsible)
                                  = crRaw.aggregateRows[i].commercial_responsible})

\* A "direct" request answered over a store in which one responsible has a
\* row of each channel: the group returned counts the direct row only.
C11_DirectRequestOverBothChannels ==
    /\ crResult.done
    /\ crResult.filters.salesChannel = "direct"
    /\ \E f \in SelectedBy("direct", crResult.filters.year.selected),
          g \in SelectedBy("indirect", crResult.filters.year.selected) :
          /\ SqlTrim(f.commercial_responsible) = SqlTrim(g.commercial_responsible)
          /\ Coalesce(g.quantity) # 0
          /\ \E i \in DOMAIN crRaw.aggregateRows :
                crRaw.aggregateRows[i].commercial_responsible
                   = SqlTrim(f.commercial_responsible)

\* The rows on which the two value columns differ, among those the answered
\* commercial-responsibles request selected.
AnsweredChannel == crResult.filters.salesChannel
AnsweredSelection == SelectedBy(AnsweredChannel, crResult.filters.year.selected)
TellingRows ==
    {f \in AnsweredSelection : Coalesce(f.direct_sales) # Coalesce(f.sales_altona)}

PartnersSalesOf(facts, channel) ==
    SumOver(facts, [f \in facts |-> resolveSalesValueExpressionOfPartners(f, channel)])

\* C12 (as amended): for salesChannel "direct" and for "indirect" the
\* commercial-responsibles view sums the same column as the top-partners
\* view does for that channel value (sales_altona for "direct", direct_sales
\* for "indirect"): on every selected row the two expressions have the same
\* value, and each total_sales returned is the sum of the top-partners
\* expression over the rows of its group.
C12_SameColumnInBothViews ==
    (crResult.done /\ AnsweredChannel \in {"direct", "indirect"}) =>
        /\ \A f \in AnsweredSelection :
              resolveSalesValueExpression(f, AnsweredChannel)
                 = resolveSalesValueExpressionOfPartners(f, AnsweredChannel)
        /\ \A i \in DOMAIN crRaw.aggregateRows :
              crRaw.aggregateRows[i].total_sales.n =
                 PartnersSalesOf({f \in AnsweredSelection :
                                     SqlTrim(f.commercial_responsible)
                                        = crRaw.aggregateRows[i].commercial_responsible},
                                 AnsweredChannel)

\* C12 (as claimed): for salesChannel "direct" and for "indirect" the
\* commercial-responsibles view sums the opposite column from the
\* top-partners view, so that the two expressions differ on every row whose
\* two value columns differ.
C12_OppositeColumnInTheTwoViews ==
    (crResult.done /\ AnsweredChannel \in {"direct", "indirect"}) =>
        \A f \in TellingRows :
           resolveSalesValueExpression(f, AnsweredChannel)
              # resolveSalesValueExpressionOfPartners(f, AnsweredChannel)

\* An "indirect" request answered over rows whose two value columns differ,
\* with a non-zero total_sales returned.
C12_IndirectRequestOverTellingRows ==
    /\ crResult.done
    /\ AnsweredChannel = "indirect"
    /\ TellingRows # {}
    /\ \E i \in DOMAIN crRaw.aggregateRows : crRaw.aggregateRows[i].total_sales.n # 0

\* C13: in every grouped aggregate the group is the trimmed value of the
\* grouping column: the rows a request keeps whose grouping values are equal
\* once trimmed are summed into one group, and no group has an empty trimmed
\* value.  Stated of the category totals of the most-sold-products query and
\* of the rows of the commercial-responsibles aggregate query.
C13_GroupsByTrimmedValue ==
    /\ msResult.done =>
          \A i \in DOMAIN msRaw :
             /\ SqlTrim(msRaw[i].product_category) # <<>>
             /\ msRaw[i].category_total_quantity.n =
                   QuantityOf({f \in MatchingFacts :
                                  SqlTrim(f.product_category)
                                     = SqlTrim(msRaw[i].product_category)})
    /\ crResult.done =>
          \A i \in DOMAIN crRaw.aggregateRows :
             /\ SqlTrim(crRaw.aggregateRows[i].commercial_responsible) # <<>>
             /\ crRaw.aggregateRows[i].total_quantity.n =
                   QuantityOf({f \in AnsweredSelection :
                                  SqlTrim(f.commercial_responsible)
                                     = SqlTrim(crRaw.aggregateRows[i].commercial_responsible)})

-----------------------------------------------------------------------------
(* Filter option lists (SpecAnalytics).                                     *)

NoDuplicate(list) == \A i, j \in DOMAIN list : list[i] = list[j] => i = j

YearOfText(text) ==
    (text[1] - 48) * 1000 + (text[2] - 48) * 100 + (text[3] - 48) * 10 + (text[4] - 48)

\* The year options of the commercial-responsibles payload, each as the
\* cell it stands for; "all" would be the cell AllYears.
CommercialYearOptions ==
    [i \in DOMAIN crResult.filters.year.options |->
        Number(crResult.filters.year.options[i])]

MostSoldYearOptionsComplete ==
    /\ AllText \in SeqRange(msResult.filters.yearOptions)
    /\ msResult.filters.year.kind # "all" =>
          StringOfYear(msResult.filters.year.n) \in SeqRange(msResult.filters.yearOptions)
    /\ NoDuplicate(msResult.filters.yearOptions)
    /\ \A i, j \in 2..Len(msResult.filters.yearOptions) :
          i < j => YearOfText(msResult.filters.yearOptions[i])
                      > YearOfText(msResult.filters.yearOptions[j])

MostSoldCategoryOptionsComplete ==
    /\ AllText \in SeqRange(msResult.filters.categoryOptions)
    /\ msResult.filters.category # AllText =>
          msResult.filters.category \in SeqRange(msResult.filters.categoryOptions)
    /\ NoDuplicate(msResult.filters.categoryOptions)
    /\ \A i, j \in 2..Len(msResult.filters.categoryOptions) :
          i < j => localeCompareBase(msResult.filters.categoryOptions[i],
                                     msResult.filters.categoryOptions[j]) <= 0

CommercialYearOptionsComplete ==
    /\ AllYears \in SeqRange(CommercialYearOptions)
    /\ crResult.filters.year.selected.kind # "null" =>
          crResult.filters.year.selected \in SeqRange(CommercialYearOptions)
    /\ NoDuplicate(CommercialYearOptions)
    /\ \A i, j \in DOMAIN CommercialYearOptions :
          i < j => CommercialYearOptions[i].n > CommercialYearOptions[j].n

\* C14: every filter option list returned (year and category of
\* most-sold-products, year of commercial-responsibles) contains the "all"
\* option and the selected value, has no duplicate and is sorted, years
\* descending and categories ascending in locale order.
C14_OptionListsComplete ==
    /\ msResult.done => MostSoldYearOptionsComplete /\ MostSoldCategoryOptionsComplete
    /\ crResult.done => CommercialYearOptionsComplete

-----------------------------------------------------------------------------
(* Specification SpecRequests: one request to one of the five endpoints is  *)
(* received, validated, runs its queries against a store that may reject    *)
(* any of them, and is answered.  The stores are filled before the request  *)
(* and do not change while it runs.                                         *)

\* absent, "", "all", "2023", "2023.5", "1899", "2201", "abc", "1900", "2200"
YearTexts ==
    {NullText,
     <<>>,
     <<97, 108, 108>>,
     <<50, 48, 50, 51>>,
     <<50, 48, 50, 51, 46, 53>>,
     <<49, 56, 57, 57>>,
     <<50, 50, 48, 49>>,
     <<97, 98, 99>>,
     <<49, 57, 48, 48>>,
     <<50, 50, 48, 48>>}

\* absent, "", "2022", "2023", "2023.5", "1899", "2201", "abc"
BoundTexts ==
    {NullText,
     <<>>,
     <<50, 48, 50, 50>>,
     <<50, 48, 50, 51>>,
     <<50, 48, 50, 51, 46, 53>>,
     <<49, 56, 57, 57>>,
     <<50, 50, 48, 49>>,
     <<97, 98, 99>>}

\* absent, "", "3", "0", "-1", "2.5", "25", "26", "250", "251", "500", "abc"
LimitTexts ==
    {NullText,
     <<>>,
     <<51>>,
     <<48>>,
     <<45, 49>>,
     <<50, 46, 53>>,
     <<50, 53>>,
     <<50, 54>>,
     <<50, 53, 48>>,
     <<50, 53, 49>>,
     <<53, 48, 48>>,
     <<97, 98, 99>>}

\* absent, "", "sales", "quantity", "name", "Sales", "price"
OrderByTexts ==
    {NullText,
     <<>>,
     <<115, 97, 108, 101, 115>>,
     <<113, 117, 97, 110, 116, 105, 116, 121>>,
     <<110, 97, 109, 101>>,
     <<83, 97, 108, 101, 115>>,
     <<112, 114, 105, 99, 101>>}

\* absent, "", "yearly", "monthly", "weekly"
ViewTexts ==
    {NullText,
     <<>>,
     <<121, 101, 97, 114, 108, 121>>,
     <<109, 111, 110, 116, 104, 108, 121>>,
     <<119, 101, 101, 107, 108, 121>>}

\* absent, "", "all", "direct", "indirect", "retail"
SalesChannelTexts ==
    {NullText,
     <<>>,
     <<97, 108, 108>>,
     <<100, 105, 114, 101, 99, 116>>,
     <<105, 110, 100, 105, 114, 101, 99, 116>>,
     <<114, 101, 116, 97, 105, 108>>}

\* absent, "", "supplier", "client", "clients", "vendor"
KindTexts ==
    {NullText,
     <<>>,
     <<115, 117, 112, 112, 108, 105, 101, 114>>,
     <<99, 108, 105, 101, 110, 116>>,
     <<99, 108, 105, 101, 110, 116, 115>>,
     <<118, 101, 110, 100, 111, 114>>}

\* absent, "", "1", "2", "0", "-2", "1.5", "abc"
MonthsAgoTexts ==
    {NullText,
     <<>>,
     <<49>>,
     <<50>>,
     <<48>>,
     <<45, 50>>,
     <<49, 46, 53>>,
     <<97, 98, 99>>}

\* absent, "all", "A", "Z"
CategoryTexts ==
    {NullText,
     <<97, 108, 108>>,
     <<65>>,
     <<90>>}

\* The requests: for each endpoint, every parameter on its own over its
\* texts, the others absent, and the two year bounds of top-partners together.
NoParams ==
    Params(NullText, NullText, NullText, NullText, NullText, NullText, NullText,
           NullText, NullText, NullText)

Request(endpoint, params) == [endpoint |-> endpoint, params |-> params]

TopPartnersRequests ==
    {Request("top-partners", [NoParams EXCEPT !.kind = x]) : x \in KindTexts}
        \cup {Request("top-partners", [NoParams EXCEPT !.limit = x]) : x \in LimitTexts}
        \cup {Request("top-partners", [NoParams EXCEPT !.orderBy = x]) : x \in OrderByTexts}
        \cup {Request("top-partners", [NoParams EXCEPT !.salesChannel = x]) :
                 x \in SalesChannelTexts}
        \cup {Request("top-partners", [NoParams EXCEPT !.minYear = x, !.maxYear = y]) :
                 x \in BoundTexts, y \in BoundTexts}

CommercialResponsiblesRequests ==
    {Request("commercial-responsibles", [NoParams EXCEPT !.year = x]) : x \in YearTexts}
        \cup {Request("commercial-responsibles", [NoParams EXCEPT !.limit = x]) :
                 x \in LimitTexts}
        \cup {Request("commercial-responsibles", [NoParams EXCEPT !.orderBy = x]) :
                 x \in OrderByTexts}
        \cup {Request("commercial-responsibles", [NoParams EXCEPT !.view = x]) :
                 x \in ViewTexts}
        \cup {Request("commercial-responsibles", [NoParams EXCEPT !.salesChannel = x]) :
                 x \in SalesChannelTexts}

MostSoldProductsRequests ==
    {Request("most-sold-products", [NoParams EXCEPT !.year = x, !.category = c]) :
        x \in YearTexts, c \in CategoryTexts}

DashboardSummaryRequests ==
    {Request("summary", [NoParams EXCEPT !.monthsAgo = x]) : x \in MonthsAgoTexts}

NetMarginRequests == {Request("net-margin", NoParams)}

Requests ==
    TopPartnersRequests \cup CommercialResponsiblesRequests \cup MostSoldProductsRequests
        \cup DashboardSummaryRequests \cup NetMarginRequests

\* The reference instant of the requests: 2024-03-31T00:00Z.
RequestInstant == DaysFromCivil(2024, 3, 31) * 24

SummaryRow(supplier, deliveryDate, directSales, quantity, logistics, commission) ==
    [supplier |-> supplier, delivery_date |-> deliveryDate,
     direct_sales |-> Decimal(directSales), quantity |-> quantity,
     logistics_cost_altona |-> logistics, commission_altona |-> Decimal(commission),
     prescriber_commission |-> Null, rfa_on_resale_orders |-> Null]

\* Rows of the summary: suppliers "an" and "bo" in February 2024, "an" in
\* January 2024 and in the year before, and a row without supplier.
SummaryRows ==
    <<SummaryRow(An, Hour(2024, 2, 10, 9), 100, Decimal(4), Decimal(5), 5),
      SummaryRow(Bo, Hour(2024, 2, 29, 23), 100, Null, Null, 10),
      SummaryRow(An, Hour(2024, 1, 31, 23), 50, Decimal(2), Decimal(1), 4),
      SummaryRow(<<>>, Hour(2024, 2, 1, 0), 0, Decimal(1), Null, 0),
      SummaryRow(An, Hour(2023, 2, 10, 9), 70, Decimal(7), Null, 7)>>

\* The stores a request may meet: empty tables; rows none of which the
\* filters of the requests with a year or a period keep; rows they keep.
Stores(partners, facts, summary, margins) ==
    [ptStore |-> partners, stFacts |-> facts, smStore |-> summary, nmStore |-> margins]

StoreStates ==
    {Stores({}, {}, {}, {}),
     Stores({}, {SalesSample[11]}, {SummaryRows[5]}, {}),
     Stores({[partner |-> <<100, 117>>, quantity |-> 1, sales |-> 2],
             [partner |-> <<68, 85>>, quantity |-> 2, sales |-> 1]},
            {SalesSample[1], SalesSample[2], SalesSample[11]},
            SeqRange(SummaryRows),
            {[transaction_id |-> 1, delivery_date |-> RequestInstant - 24,
              total_net_margin_eur |-> Decimal(2), sales_altona |-> Decimal(3)]})}

Received(request) ==
    [endpoint |-> request.endpoint, params |-> request.params, phase |-> "received",
     options |-> Null, calls |-> 0, failed |-> FALSE, status |-> 0, body |-> Null]

InitRequests ==
    /\ tz = 0
    /\ now = RequestInstant
    /\ \E s \in StoreStates :
          /\ ptStore = s.ptStore
          /\ stFacts = s.stFacts
          /\ smStore = s.smStore
          /\ nmStore = s.nmStore
    /\ rq = NoRequest
    /\ rawRows = <<>> /\ nmPayload = NoPayload
    /\ ptRaw = <<>> /\ ptResult = NoResult
    /\ msRaw = <<>> /\ msResult = NoResult /\ crRaw = NoResult /\ crResult = NoResult
    /\ IdleRanges /\ IdleDeltas /\ IdleLater

OutsideRequests ==
    <<tz, varsRg, varsNM, varsPt, varsAn, varsDl, smStore, varsLater>>

\* GET is entered with the parameters of the URL.
Receive ==
    /\ rq.phase = "idle"
    /\ \E request \in Requests : rq' = Received(request)
    /\ UNCHANGED OutsideRequests

\* The parsers of the route and the checks the assembler makes ahead of its
\* first query: the first error thrown is answered by the catch block.
Validate ==
    /\ rq.phase = "received"
    /\ rq' = IF OptionsOf(rq.endpoint, rq.params).ok
             THEN [rq EXCEPT !.phase = "validated",
                             !.options = OptionsOf(rq.endpoint, rq.params).value]
             ELSE [rq EXCEPT !.phase = "answered",
                             !.status = StatusOf(rq.endpoint,
                                                 OptionsOf(rq.endpoint, rq.params)),
                             !.body = ErrorBody(OptionsOf(rq.endpoint, rq.params))]
    /\ UNCHANGED OutsideRequests

Rejected(request, calls) ==
    [request EXCEPT !.phase = "answered", !.calls = calls, !.failed = TRUE,
                    !.status = StatusOf(request.endpoint, StoreError),
                    !.body = ErrorBody(StoreError)]

\* One awaited query: the store answers it or rejects it.
QueryInTurn ==
    /\ rq.phase = "validated"
    /\ rq.calls < QueriesInTurn(rq.endpoint, rq.options)
    /\ \E fails \in BOOLEAN :
          rq' = IF fails THEN Rejected(rq, rq.calls + 1)
                ELSE [rq EXCEPT !.calls = rq.calls + 1]
    /\ UNCHANGED OutsideRequests

\* The queries of one Promise.all, all issued before any is awaited: the
\* promise rejects as soon as one of them is rejected.
QueryTogether ==
    /\ rq.phase = "validated"
    /\ rq.calls < QueriesTogether(rq.endpoint)
    /\ \E failed \in SUBSET (1..QueriesTogether(rq.endpoint)) :
          rq' = IF failed # {} THEN Rejected(rq, QueriesTogether(rq.endpoint))
                ELSE [rq EXCEPT !.calls = QueriesTogether(rq.endpoint)]
    /\ UNCHANGED OutsideRequests

\* Every query has answered: the payload is assembled and returned.
Respond ==
    /\ rq.phase = "validated"
    /\ rq.calls = QueriesInTurn(rq.endpoint, rq.options) + QueriesTogether(rq.endpoint)
    /\ \E payload \in PayloadsOf(rq.endpoint, rq.options) :
          rq' = [rq EXCEPT !.phase = "answered", !.status = 200, !.body = payload]
    /\ UNCHANGED OutsideRequests

NextRequests == Receive \/ Validate \/ QueryInTurn \/ QueryTogether \/ Respond

SpecRequests == InitRequests /\ [][NextRequests]_vars

-----------------------------------------------------------------------------
(* Validation of the parameters (SpecRequests).                             *)

\* The documented domains.  A value is missing when the URL does not carry
\* the parameter or carries the empty text.
Missing(text) == text = NullText \/ text = <<>>

OutsideYears(text) ==
    /\ ~Missing(text)
    /\ \/ ~IsInteger(NumberOfText(text))
       \/ Trunc(NumberOfText(text)) < 1900
       \/ Trunc(NumberOfText(text)) > 2200

OutsideYearsOrAll(text) == OutsideYears(text) /\ Normalized(text) # AllText

OutsideLimits(text, maximum) ==
    /\ ~Missing(text)
    /\ \/ ~isFinite(NumberOfText(text))
       \/ NumberOfText(text).num <= 0
       \/ NumberOfText(text).num > maximum * NumberOfText(text).den

OutsideWords(text, words) == ~Missing(text) /\ Normalized(text) \notin words

BoundsCrossed(minYear, maxYear) ==
    /\ ~Missing(minYear) /\ ~Missing(maxYear)
    /\ ~OutsideYears(minYear) /\ ~OutsideYears(maxYear)
    /\ Trunc(NumberOfText(minYear)) > Trunc(NumberOfText(maxYear))

\* Some parameter the endpoint reads carries a value outside its domain.
OutsideDomain(endpoint, p) ==
    CASE endpoint = "top-partners" ->
            \/ OutsideWords(p.kind, {TextSupplier, TextSuppliers, TextClient, TextClients})
            \/ OutsideLimits(p.limit, 25)
            \/ OutsideWords(p.orderBy, {TextSales, TextQuantity})
            \/ OutsideYears(p.minYear) \/ OutsideYears(p.maxYear)
            \/ BoundsCrossed(p.minYear, p.maxYear)
            \/ OutsideWords(p.salesChannel, {AllText, TextDirect, TextIndirect})
      [] endpoint = "commercial-responsibles" ->
            \/ OutsideWords(p.salesChannel, {AllText, TextDirect, TextIndirect})
            \/ OutsideYearsOrAll(p.year)
            \/ OutsideWords(p.view, {TextYearly, TextMonthly})
            \/ OutsideWords(p.orderBy, {TextSales, TextQuantity, TextName})
            \/ OutsideLimits(p.limit, 250)
      [] endpoint = "most-sold-products" -> OutsideYearsOrAll(p.year)
      [] endpoint = "summary" ->
            /\ ~Missing(p.monthsAgo)
            /\ \/ ~IsInteger(NumberOfText(p.monthsAgo))
               \/ Trunc(NumberOfText(p.monthsAgo)) < 1
      [] OTHER -> FALSE

\* The documented default stands for every missing parameter.
DefaultsStand(endpoint, p, o) ==
    CASE endpoint = "top-partners" ->
            /\ Missing(p.kind) => o.kind = "supplier"
            /\ Missing(p.limit) => o.limit = 5
            /\ Missing(p.orderBy) => o.orderBy = "sales"
            /\ Missing(p.minYear) => o.minYear = Null
            /\ Missing(p.maxYear) => o.maxYear = Null
            /\ Missing(p.salesChannel) => o.salesChannel = "all"
      [] endpoint = "commercial-responsibles" ->
            /\ Missing(p.salesChannel) => o.salesChannel = "all"
            /\ Missing(p.year) => o.year = Null
            /\ Missing(p.view) => o.view = "yearly"
            /\ Missing(p.orderBy) => o.orderBy = "sales"
            /\ Missing(p.limit) => o.limit = Null
      [] endpoint = "most-sold-products" -> Missing(p.year) => o.year = AllYears
      [] endpoint = "summary" -> Missing(p.monthsAgo) => o.monthsAgo = 1
      [] OTHER -> TRUE

Validated == rq.phase \in {"validated", "answered"}

\* C15 (first half): a request none of whose parameters is outside its
\* domain passes validation, and every missing parameter has its documented
\* default.
DefaultsForMissingParameters ==
    (Validated /\ ~OutsideDomain(rq.endpoint, rq.params))
        => /\ rq.status # 400
           /\ rq.options # Null
           /\ DefaultsStand(rq.endpoint, rq.params, rq.options)

\* C15 (second half): a request with a parameter outside its domain is
\* answered 400.
OutsideDomainRejected ==
    (Validated /\ OutsideDomain(rq.endpoint, rq.params)) => rq.status = 400

\* C15: for every endpoint parameter, a missing value yields the documented
\* default, and a value outside the documented domain (a non-integer year, a
\* year outside 1900-2200, a limit <= 0 or above the maximum, an unsupported
\* word, minYear > maxYear) is answered 400, never truncated, clamped or
\* replaced by a default.
C15_InvalidParametersRejected == DefaultsForMissingParameters /\ OutsideDomainRejected

-----------------------------------------------------------------------------
(* Errors and the store (SpecRequests).                                     *)

ValidationFailed == Validated /\ ~OptionsOf(rq.endpoint, rq.params).ok

\* C16: a request that ends in a validation error has issued no query to the
\* store when the error is reported: a request whose validation fails is
\* answered without a store call, and no request is answered 400 after one.
C16_ValidationErrorBeforeAnyQuery ==
    /\ ValidationFailed => (rq.phase = "answered" /\ rq.status = 400 /\ rq.calls = 0)
    /\ (rq.phase = "answered" /\ rq.status = 400) => rq.calls = 0

\* C16, its case: top-partners is answered 400 for minYear > maxYear, the
\* check the assembler itself makes, without a store call.
C16_CrossedBoundsRejected ==
    /\ rq.phase = "answered" /\ rq.endpoint = "top-partners"
    /\ BoundsCrossed(rq.params.minYear, rq.params.maxYear)
    /\ rq.status = 400 /\ rq.calls = 0

\* C17: when the store rejects one of the queries of a request, awaited
\* together or in turn, the answer is 500 and carries an error message and
\* nothing else; and a payload is returned only when every query answered.
C17_StoreFailureIsServerError ==
    /\ rq.failed => /\ rq.phase = "answered"
                    /\ rq.status = 500
                    /\ DOMAIN rq.body = {"error"}
    /\ (rq.phase = "answered" /\ rq.status = 200)
          => /\ ~rq.failed
             /\ rq.calls = QueriesInTurn(rq.endpoint, rq.options)
                               + QueriesTogether(rq.endpoint)

\* C17, its cases: a query of a Promise.all is rejected, and a query awaited
\* after another that answered is rejected.
C17_FailedTogether ==
    rq.failed /\ rq.endpoint = "most-sold-products" /\ rq.status = 500

C17_FailedInTurn ==
    rq.failed /\ rq.endpoint = "commercial-responsibles" /\ rq.calls = 3

-----------------------------------------------------------------------------
(* Payloads over a store without a matching row (SpecRequests).             *)

\* No row of the store passes the filters of the request.  The store of
\* top-partners holds the rows its filters keep; the filters of the summary
\* are its two periods.
NoRowMatches(endpoint, o) ==
    CASE endpoint = "top-partners" -> ptStore = {}
      [] endpoint = "commercial-responsibles" ->
            {f \in stFacts : buildBaseFilters(f, o.year, o.salesChannel)} = {}
      [] endpoint = "most-sold-products" ->
            {f \in stFacts : buildWhereClause(f, o.year, o.category)} = {}
      [] endpoint = "summary" ->
            /\ RowsWithin(smStore, getPeriodRanges(o.monthsAgo, now).currentPeriod.start,
                          getPeriodRanges(o.monthsAgo, now).currentPeriod.end) = {}
            /\ RowsWithin(smStore, getPeriodRanges(o.monthsAgo, now).previousPeriod.start,
                          getPeriodRanges(o.monthsAgo, now).previousPeriod.end) = {}
      [] OTHER -> FALSE

EmptyCard(card) ==
    /\ card.delta = Null
    /\ IF card.id = "operatingCostShare"
       THEN card.currentValue = Null /\ card.previousValue = Null
       ELSE card.currentValue = Number(0) /\ card.previousValue = Number(0)

EmptyPayload(endpoint, body) ==
    CASE endpoint = "top-partners" ->
            /\ body.partners = <<>>
            /\ body.totals.quantity = 0 /\ body.totals.salesValue = 0
      [] endpoint = "commercial-responsibles" ->
            /\ body.rows = <<>>
            /\ body.totals.quantity = 0 /\ body.totals.salesValue = 0
      [] endpoint = "most-sold-products" ->
            /\ body.rows = <<>>
            /\ body.summary.totalCategories = 0
            /\ body.summary.totalQuantityTopProducts = 0
            /\ body.summary.totalRows = 0
      [] endpoint = "summary" ->
            /\ Len(body.cards) = 3
            /\ \A i \in DOMAIN body.cards : EmptyCard(body.cards[i])
            /\ body.topSupplier = Null
      [] OTHER -> TRUE

AllQueriesAnswered ==
    /\ rq.phase = "validated"
    /\ rq.calls = QueriesInTurn(rq.endpoint, rq.options) + QueriesTogether(rq.endpoint)

-----------------------------------------------------------------------------
(* Ends of the enumerated ranges and the start of a week (SpecRanges).      *)

Last(s) == s[Len(s)]

\* C19 (first half): the three enumerators return the empty sequence when
\* start > end.
EmptyWhenReversed ==
    (rgKeys # NoKeys /\ rgStart > rgEnd) =>
        (rgKeys.month = <<>> /\ rgKeys.day = <<>> /\ rgKeys.week = <<>>)

\* C19 (second half): for start <= end the last key of each sequence is the
\* period key of end.
LastKeyIsKeyOfEnd ==
    (rgKeys # NoKeys /\ rgStart <= rgEnd) =>
        /\ rgKeys.month # <<>> /\ Last(rgKeys.month) = monthKey(rgEnd)
        /\ rgKeys.day # <<>> /\ Last(rgKeys.day) = dateKey(rgEnd)
        /\ rgKeys.week # <<>> /\ Last(rgKeys.week) = weekStartKey(rgEnd)

\* C19: each range enumerator (month, day, week) returns the empty sequence
\* for every pair of instants with start > end, and for every start <= end
\* its last key is the period key of end, also when end falls in the middle
\* of its period.
C19_EmptyWhenReversedElseEndsAtEnd == EmptyWhenReversed /\ LastKeyIsKeyOfEnd

\* The calendar day a day key names, counted from 1970-01-01, and the key of
\* a day so counted.
DayOfKey(k) == DaysFromCivil(k \div 10000, (k \div 100) % 100, k % 100)

KeyOfDay(z) ==
    CivilFromDays(z).year * 10000 + CivilFromDays(z).month * 100 + CivilFromDays(z).day

\* C20: for every date d, weekStartKey(d) is the key of a calendar day that
\* is a Monday, on or before the day of d and at most 6 days before it.
C20_WeekStartIsMondayWithinSixDays ==
    rgKeys # NoKeys =>
        /\ KeyOfDay(DayOfKey(weekStartKey(rgStart))) = weekStartKey(rgStart)
        /\ (DayOfKey(weekStartKey(rgStart)) + 4) % 7 = 1
        /\ DayOfKey(weekStartKey(rgStart)) <= LocalDay(rgStart)
        /\ LocalDay(rgStart) - DayOfKey(weekStartKey(rgStart)) <= 6
        /\ getDay(rgStart) = 0 => LocalDay(rgStart) - DayOfKey(weekStartKey(rgStart)) = 6
        /\ getDay(rgStart) = 1 => DayOfKey(weekStartKey(rgStart)) = LocalDay(rgStart)

\* C20, its case: a Sunday late in the evening, away from UTC, whose Monday
\* lies six days earlier.
C20_SundayMapsSixDaysBack ==
    /\ rgKeys # NoKeys /\ tz # 0
    /\ getDay(rgStart) = 0 /\ getHours(rgStart) # 0
    /\ weekStartKey(rgStart) = KeyOfDay(LocalDay(rgStart) - 6)

-----------------------------------------------------------------------------
(* Specification SpecSubMonths: subMonths applied to a date and a number of *)
(* months, and the four window starts buildNetMarginPayload derives from    *)
(* now.                                                                     *)

MaxMonths == 13

\* Dates at the end and in the middle of months of different lengths, in
\* and around a leap year, at three hours of the day (UTC).
SubMonthsDays ==
    {DaysFromCivil(2023, 12, 31), DaysFromCivil(2024, 1, 30), DaysFromCivil(2024, 1, 31),
     DaysFromCivil(2024, 2, 29), DaysFromCivil(2024, 3, 1), DaysFromCivil(2024, 3, 29),
     DaysFromCivil(2024, 3, 30), DaysFromCivil(2024, 3, 31), DaysFromCivil(2024, 5, 31),
     DaysFromCivil(2024, 7, 15), DaysFromCivil(2025, 3, 31)}

SubMonthsDates == {z * 24 + h : z \in SubMonthsDays, h \in {0, 12, 23}}

InitSubMonths ==
    /\ tz \in TimeZones
    /\ sbDate \in SubMonthsDates
    /\ sbMonths \in 0..MaxMonths
    /\ sbResult = NoResult
    /\ IdleOld /\ IdleNormalizers /\ IdleUploads /\ IdleChannels /\ IdleTopPartners /\ IdleChannelSums /\ IdleWidgets

OutsideSubMonths == <<varsRg, varsNM, varsPt, varsAn, varsDl, varsRq, varsNz, varsUp, varsCh, varsTp, varsCs, varsWg>>

ApplySubMonths ==
    /\ sbResult = NoResult
    /\ sbResult' = [done |-> TRUE, kind |-> "date", date |-> subMonths(sbDate, sbMonths)]
    /\ UNCHANGED <<tz, sbDate, sbMonths>>
    /\ UNCHANGED OutsideSubMonths

\* start12, start6, start3 and start1 of buildNetMarginPayload, now being
\* the date handed in.
StartWindows ==
    /\ sbResult = NoResult
    /\ sbMonths = 0
    /\ sbResult' = [done |-> TRUE, kind |-> "windows",
                    start12 |-> subMonths(sbDate, 12), start6 |-> subMonths(sbDate, 6),
                    start3 |-> subMonths(sbDate, 3), start1 |-> subMonths(sbDate, 1)]
    /\ UNCHANGED <<tz, sbDate, sbMonths>>
    /\ UNCHANGED OutsideSubMonths

NextSubMonths == ApplySubMonths \/ StartWindows

SpecSubMonths == InitSubMonths /\ [][NextSubMonths]_vars

\* The local month of an instant, counted from year 0, and the number of
\* days of a month so counted.
LocalMonthIndex(t) == getFullYear(t) * 12 + getMonth(t)

DaysInMonth(index) ==
    DaysFromCivil((index + 1) \div 12, ((index + 1) % 12) + 1, 1)
        - DaysFromCivil(index \div 12, (index % 12) + 1, 1)

-----------------------------------------------------------------------------
(* Specification SpecNormalizers: the three numeric normalizers applied to  *)
(* raw cell values of every kind, and an aggregator adding what they return *)
(* to a sum.  A raw value has a type, and a number (what a number or bigint *)
(* is, or what toNumber() of a decimal-like object returns), a text (what a *)
(* string spells) and whether toNumber() throws.                            *)

MaxCells == 2

Raw(type, num, text, throws) == [type |-> type, num |-> num, text |-> text, throws |-> throws]

RawNumbers == {JsNumber(0, 1), JsNumber(7, 1), JsNumber(-25, 10), NaN, Infinity}
RawTexts == {<<>>, <<32>>, <<49, 50>>, <<32, 55, 32>>, <<45, 51, 46, 53>>, <<97, 98, 99>>}

RawValues ==
    {Raw(type, JsNumber(0, 1), <<>>, FALSE) : type \in {"null", "undefined", "boolean"}}
        \cup {Raw("number", x, <<>>, FALSE) : x \in RawNumbers}
        \cup {Raw("bigint", JsNumber(9, 1), <<>>, FALSE)}
        \cup {Raw("string", JsNumber(0, 1), t, FALSE) : t \in RawTexts}
        \cup {Raw("decimal", x, <<>>, FALSE) : x \in {JsNumber(4, 1), NaN, Infinity}}
        \cup {Raw("decimal", JsNumber(0, 1), <<>>, TRUE)}

\* toFiniteNumber of part_005, on raw values.
toFiniteNumberOfRaw(value, fallback) ==
    IF value.type \in {"null", "undefined"} \/ (value.type = "string" /\ value.text = <<>>)
    THEN fallback
    ELSE IF value.type \in {"number", "bigint"}
    THEN IF isFinite(value.num) THEN value.num ELSE fallback
    ELSE IF value.type = "string"
    THEN LET trimmed == StripEnds(value.text, JsWhiteSpace)
             numeric == NumberOfText(trimmed)
         IN  IF Len(trimmed) = 0 THEN fallback
             ELSE IF isFinite(numeric) THEN numeric ELSE fallback
    ELSE IF value.type = "decimal"
    THEN IF value.throws THEN fallback
         ELSE IF isFinite(value.num) THEN value.num ELSE fallback
    ELSE fallback

\* A variant of the route's toNumber that checks what toNumber() returns,
\* for comparison.
DecimalChecked(value) == IF isFinite(value.num) THEN value.num ELSE JsNumber(0, 1)

\* return value.toNumber() of the route's toNumber
DecimalReturned(value) == value.num

\* toNumber of the net-margin route: what toNumber() of a decimal-like
\* object returns is handed on as it is.
toNumber(value) ==
    IF value.type \in {"null", "undefined"} \/ (value.type = "string" /\ value.text = <<>>)
    THEN JsNumber(0, 1)
    ELSE IF value.type = "number"
    THEN IF isFinite(value.num) THEN value.num ELSE JsNumber(0, 1)
    ELSE IF value.type = "string"
    THEN LET n == NumberOfText(value.text)
         IN  IF isFinite(n) THEN n ELSE JsNumber(0, 1)
    ELSE IF value.type = "decimal"
    THEN IF value.throws THEN JsNumber(0, 1) ELSE DecimalReturned(value)
    ELSE JsNumber(0, 1)

\* safeNumber of part_008, on raw values.
safeNumberOfRaw(input) ==
    IF input.type = "number"
    THEN IF isFinite(input.num) THEN input.num ELSE JsNumber(0, 1)
    ELSE IF input.type = "string"
    THEN LET parsed == NumberOfText(input.text)
         IN  IF isFinite(parsed) THEN parsed ELSE JsNumber(0, 1)
    ELSE IF input.type = "decimal"
    THEN IF input.throws THEN JsNumber(0, 1)
         ELSE IF isFinite(input.num) THEN input.num ELSE JsNumber(0, 1)
    ELSE JsNumber(0, 1)

Normalizers == {"toFiniteNumber", "toNumber", "safeNumber"}

NormalizerOf(fn, value, fallback) ==
    IF fn = "toFiniteNumber" THEN toFiniteNumberOfRaw(value, fallback)
    ELSE IF fn = "toNumber" THEN toNumber(value)
    ELSE safeNumberOfRaw(value)

\* a + b of two numbers; an overflow of finite numbers is not modelled.
JsAdd(a, b) ==
    IF isFinite(a) /\ isFinite(b)
    THEN JsNumber(a.num * b.den + b.num * a.den, a.den * b.den)
    ELSE IF a = NaN \/ b = NaN THEN NaN ELSE Infinity

\* toFiniteNumber is handed a fallback by its caller (0 by default, NaN by
\* toNullableNumber); the other two have the fallback 0 built in.
InitNormalizers ==
    /\ tz = 0
    /\ nzFn \in Normalizers
    /\ nzFallback \in {JsNumber(0, 1), NaN}
    /\ nzFn # "toFiniteNumber" => nzFallback = JsNumber(0, 1)
    /\ nzSum = JsNumber(0, 1)
    /\ nzCount = 0
    /\ nzLast = NoResult
    /\ IdleOld /\ IdleSubMonths /\ IdleUploads /\ IdleChannels /\ IdleTopPartners /\ IdleChannelSums /\ IdleWidgets

OutsideNormalizers == <<varsOld, varsSb, varsUp, varsCh, varsTp, varsCs, varsWg>>

\* A call of the normalizer with the caller's fallback.
Normalize ==
    \E value \in RawValues :
        /\ nzLast' = [done |-> TRUE, added |-> FALSE, value |-> value,
                      returned |-> NormalizerOf(nzFn, value, nzFallback)]
        /\ UNCHANGED <<nzFn, nzFallback, nzSum, nzCount>>
        /\ UNCHANGED OutsideNormalizers

\* A pass of an aggregator's loop: sum += normalizer(cell), the fallback
\* being 0.
AddCell ==
    \E value \in RawValues :
        /\ nzCount < MaxCells
        /\ nzFallback = JsNumber(0, 1)
        /\ LET returned == NormalizerOf(nzFn, value, JsNumber(0, 1))
           IN  /\ nzSum' = JsAdd(nzSum, returned)
               /\ nzLast' = [done |-> TRUE, added |-> TRUE, value |-> value,
                             returned |-> returned]
        /\ nzCount' = nzCount + 1
        /\ UNCHANGED <<nzFn, nzFallback>>
        /\ UNCHANGED OutsideNormalizers

NextNormalizers == Normalize \/ AddCell

SpecNormalizers == InitNormalizers /\ [][NextNormalizers]_vars

\* C22: whatever the kind of the value, the normalizer returns a finite
\* number or the fallback of its caller, and what an aggregator adds to a sum
\* is finite.
C22_FiniteOrFallback ==
    nzLast # NoResult =>
        /\ isFinite(nzLast.returned) \/ nzLast.returned = nzFallback
        /\ nzLast.added => isFinite(nzLast.returned) /\ isFinite(nzSum)

-----------------------------------------------------------------------------
(* Specification SpecUploads: calls of processSalesUpload on workbooks,     *)
(* interleaved at their awaits, against the table sales_transactions.  A    *)
(* data row of the sheet has a number of cells (width), a delivery_date     *)
(* cell, the three required numeric cells as raw values, and the remaining  *)
(* cells, which are all empty or not.                                       *)

MaxUploads == 3

ColumnCount == 22

REQUIRED_NUMERIC_FIELDS == {"direct_sales", "commission_altona", "total_net_margin_eur"}

RawOfNull == Raw("null", JsNumber(0, 1), <<>>, FALSE)

SheetRow(width, date, direct, commission, margin, others) ==
    [width |-> width, delivery_date |-> date, direct_sales |-> direct,
     commission_altona |-> commission, total_net_margin_eur |-> margin, others |-> others]

RowA == SheetRow(22, "date", Raw("number", JsNumber(7, 1), <<>>, FALSE),
                 Raw("number", JsNumber(0, 1), <<>>, FALSE),
                 Raw("number", JsNumber(-25, 10), <<>>, FALSE), "filled")
RowB == SheetRow(22, "serial", Raw("string", JsNumber(0, 1), <<32, 55, 32>>, FALSE),
                 Raw("string", JsNumber(0, 1), <<49, 50>>, FALSE),
                 Raw("decimal", JsNumber(4, 1), <<>>, FALSE), "filled")
RowMissingMargin == SheetRow(22, "date", Raw("number", JsNumber(7, 1), <<>>, FALSE),
                             Raw("number", JsNumber(7, 1), <<>>, FALSE), RawOfNull, "filled")
RowNaNDirect == SheetRow(22, "date", Raw("number", NaN, <<>>, FALSE),
                         Raw("number", JsNumber(7, 1), <<>>, FALSE),
                         Raw("number", JsNumber(7, 1), <<>>, FALSE), "filled")
RowTextCommission == SheetRow(22, "date", Raw("number", JsNumber(7, 1), <<>>, FALSE),
                              Raw("string", JsNumber(0, 1), <<97, 98, 99>>, FALSE),
                              Raw("decimal", Infinity, <<>>, FALSE), "filled")
RowBlankMargin == SheetRow(22, "date", Raw("number", JsNumber(7, 1), <<>>, FALSE),
                           Raw("decimal", JsNumber(0, 1), <<>>, TRUE),
                           Raw("string", JsNumber(0, 1), <<32>>, FALSE), "filled")
RowShort == SheetRow(21, "date", Raw("number", JsNumber(7, 1), <<>>, FALSE),
                     Raw("number", JsNumber(7, 1), <<>>, FALSE), RawOfNull, "filled")
RowBadDate == SheetRow(22, "unrecognized", Raw("number", JsNumber(7, 1), <<>>, FALSE),
                       Raw("number", JsNumber(7, 1), <<>>, FALSE),
                       Raw("number", JsNumber(7, 1), <<>>, FALSE), "filled")
RowBlank == SheetRow(22, "null", RawOfNull, Raw("string", JsNumber(0, 1), <<32>>, FALSE),
                     RawOfNull, "blank")

\* The data rows of the first sheet of the workbooks handed in.
Workbooks ==
    {<<>>, <<RowA>>, <<RowB>>, <<RowA, RowB>>, <<RowMissingMargin>>,
     <<RowA, RowMissingMargin>>, <<RowNaNDirect, RowB>>,
     <<RowTextCommission, RowA, RowShort>>, <<RowBadDate, RowBlankMargin>>,
     <<RowBlank, RowB, RowBadDate>>}

IsBlankCell(value) ==
    value.type \in {"null", "undefined"}
        \/ (value.type = "string" /\ Len(StripEnds(value.text, JsWhiteSpace)) = 0)

isBlankRow(cells) ==
    /\ cells.others = "blank" /\ cells.delivery_date = "null"
    /\ \A field \in REQUIRED_NUMERIC_FIELDS : IsBlankCell(cells[field])

\* A variant that hands on what the cell converts to without the check of
\* finiteness, for comparison.
numOrNullUnchecked(value) ==
    IF value.type = "string" THEN NumberOfText(value.text) ELSE value.num

numOrNull(value) ==
    IF value.type \in {"null", "undefined"} \/ (value.type = "string" /\ value.text = <<>>)
    THEN Null
    ELSE IF value.type = "number"
    THEN IF isFinite(value.num) THEN value.num ELSE Null
    ELSE IF value.type = "string"
    THEN LET trimmed == StripEnds(value.text, JsWhiteSpace)
             parsed == NumberOfText(trimmed)
         IN  IF Len(trimmed) = 0 THEN Null
             ELSE IF isFinite(parsed) THEN parsed ELSE Null
    ELSE IF value.type = "decimal"
    THEN IF value.throws THEN Null
         ELSE IF isFinite(value.num) THEN value.num ELSE Null
    ELSE Null

\* toDate throws on a cell that is no Date, no number and no text it
\* recognises.
toDateThrows(raw) == raw \notin {"date", "serial", "text"}

UploadRow(lineNo, cells) ==
    [line |-> lineNo,
     direct_sales |-> numOrNull(cells.direct_sales),
     commission_altona |-> numOrNull(cells.commission_altona),
     total_net_margin_eur |-> numOrNull(cells.total_net_margin_eur)]

\* The pass of dataRows.forEach on the row at index: what it appends to
\* rows and to errors.
ParseRow(acc, cells, index) ==
    LET lineNo == index + 2
        draft == UploadRow(lineNo, cells)
    IN  IF isBlankRow(cells) THEN acc
        ELSE IF cells.width < ColumnCount
        THEN [acc EXCEPT !.errors = Append(@, [line |-> lineNo, error |-> "columns"])]
        ELSE IF toDateThrows(cells.delivery_date)
        THEN [acc EXCEPT !.errors = Append(@, [line |-> lineNo, error |-> "delivery_date"])]
        ELSE IF \E field \in REQUIRED_NUMERIC_FIELDS : draft[field] = Null
        THEN [acc EXCEPT !.errors = Append(@, [line |-> lineNo, error |-> "required"])]
        ELSE [acc EXCEPT !.rows = Append(@, draft)]

RECURSIVE ParseRows(_, _)
ParseRows(dataRows, n) ==
    IF n = 0 THEN [rows |-> <<>>, errors |-> <<>>]
    ELSE ParseRow(ParseRows(dataRows, n - 1), dataRows[n], n - 1)

parseSalesUploadWorkbook(dataRows) ==
    IF Len(dataRows) = 0
    THEN [rows |-> <<>>, errors |-> <<[line |-> 0, error |-> "empty"]>>]
    ELSE ParseRows(dataRows, Len(dataRows))

Callers == {1, 2}

NoCall == [phase |-> "idle", upload |-> 0, sheet |-> <<>>, rows |-> <<>>, errors |-> <<>>,
           inserted |-> 0]

\* The rows of a call as the table holds them.
Stored(call) == {[upload |-> call.upload, row |-> call.rows[i]] : i \in DOMAIN call.rows}

InitUploads ==
    /\ tz = 0
    /\ upTable = {}
    /\ upCalls = [c \in Callers |-> NoCall]
    /\ upStarted = 0
    /\ upLast = {}
    /\ IdleOld /\ IdleSubMonths /\ IdleNormalizers /\ IdleChannels /\ IdleTopPartners /\ IdleChannelSums /\ IdleWidgets

OutsideUploads == <<varsOld, varsSb, varsNz, varsCh, varsTp, varsCs, varsWg>>

InProgress(call) == call.phase \in {"parsed", "deleted"}

\* processSalesUpload up to its first await: the workbook is parsed, and the
\* call returns at once if no row is valid.
StartUpload(c) ==
    \E sheet \in Workbooks :
        /\ ~InProgress(upCalls[c])
        /\ upStarted < MaxUploads
        /\ upStarted' = upStarted + 1
        /\ LET parseResult == parseSalesUploadWorkbook(sheet)
           IN  upCalls' = [upCalls EXCEPT ![c] =
                   [phase |-> IF Len(parseResult.rows) = 0 THEN "returned" ELSE "parsed",
                    upload |-> upStarted + 1, sheet |-> sheet, rows |-> parseResult.rows,
                    errors |-> parseResult.errors, inserted |-> 0]]
        /\ UNCHANGED <<upTable, upLast>>
        /\ UNCHANGED OutsideUploads

\* await prisma.sales_transactions.deleteMany()
DeleteMany(c) ==
    /\ upCalls[c].phase = "parsed"
    /\ upTable' = {}
    /\ upCalls' = [upCalls EXCEPT ![c].phase = "deleted"]
    /\ UNCHANGED <<upStarted, upLast>>
    /\ UNCHANGED OutsideUploads

\* await prisma.sales_transactions.createMany({data: rows}), and the return
\* of the call.
CreateMany(c) ==
    /\ upCalls[c].phase = "deleted"
    /\ upTable' = upTable \cup Stored(upCalls[c])
    /\ upCalls' = [upCalls EXCEPT ![c].phase = "returned", ![c].inserted = Len(upCalls[c].rows)]
    /\ upLast' = Stored(upCalls[c])
    /\ UNCHANGED upStarted
    /\ UNCHANGED OutsideUploads

\* createMany rejects: the call throws, after the delete.
CreateManyFails(c) ==
    /\ upCalls[c].phase = "deleted"
    /\ upCalls' = [upCalls EXCEPT ![c].phase = "thrown"]
    /\ UNCHANGED <<upTable, upStarted, upLast>>
    /\ UNCHANGED OutsideUploads

NextUploads ==
    \E c \in Callers : StartUpload(c) \/ DeleteMany(c) \/ CreateMany(c) \/ CreateManyFails(c)

SpecUploads == InitUploads /\ [][NextUploads]_vars

\* A raw cell that spells a finite number.
SpellsFiniteNumber(value) ==
    \/ value.type = "number" /\ isFinite(value.num)
    \/ value.type = "string" /\ StripEnds(value.text, JsWhiteSpace) # <<>>
          /\ isFinite(NumberOfText(value.text))
    \/ value.type = "decimal" /\ ~value.throws /\ isFinite(value.num)

RequiredPresent(cells) ==
    \A field \in REQUIRED_NUMERIC_FIELDS : SpellsFiniteNumber(cells[field])

LinesOf(list) == {list[i].line : i \in DOMAIN list}

\* C23: every row of sales_transactions has a finite total_net_margin_eur,
\* direct_sales and commission_altona; a sheet row that lacks one of them or
\* holds one that spells no finite number is not passed on but recorded as
\* an error of its line, and the other rows of the sheet that are complete
\* are still accepted.
C23_RequiredFieldsNeverNull ==
    /\ \A t \in upTable : \A field \in REQUIRED_NUMERIC_FIELDS : isFinite(t.row[field])
    /\ \A c \in Callers : \A i \in DOMAIN upCalls[c].sheet :
          LET cells == upCalls[c].sheet[i]
              lineNo == i + 1
          IN  /\ (~isBlankRow(cells) /\ ~RequiredPresent(cells)) =>
                    /\ lineNo \notin LinesOf(upCalls[c].rows)
                    /\ lineNo \in LinesOf(upCalls[c].errors)
              /\ (RequiredPresent(cells) /\ cells.width = ColumnCount
                      /\ ~toDateThrows(cells.delivery_date)) =>
                    lineNo \in LinesOf(upCalls[c].rows)

\* C23, its case: an upload whose sheet holds a row with a non-numeric
\* commission_altona and a complete row has stored the complete row and
\* reported the other two.
C23_IncompleteRowReportedOthersStored ==
    \E c \in Callers :
        /\ upCalls[c].phase = "returned"
        /\ upCalls[c].sheet = <<RowTextCommission, RowA, RowShort>>
        /\ LinesOf(upCalls[c].errors) = {2, 4}
        /\ upCalls[c].inserted = 1
        /\ upTable = Stored(upCalls[c])

NoUploadInProgress == \A c \in Callers : ~InProgress(upCalls[c])

\* C24: whenever no upload is in progress, the table holds exactly the valid
\* rows of the upload that completed last (none before the first), whatever
\* the interleaving of the calls and whether a bulk insert failed after its
\* delete; an upload without a valid row leaves the table as it was.
C24_TableIsLastCompletedUpload ==
    NoUploadInProgress => upTable = upLast

-----------------------------------------------------------------------------
(* Specification SpecChannels: one order type classified by the sales       *)
(* channel filter of top-partners and by that of commercial-responsibles.   *)

\* INDIRECT_ORDER_TYPES of topPartners.ts as the file spells it: its second
\* name has the units 8730 and 169 where part_008 has the unit 233.
INDIRECT_ORDER_TYPES_OfPartners ==
    {<<80, 101, 114, 109, 97, 110, 101, 110, 116, 32, 100, 105, 114, 101, 99, 116>>,
     <<79, 112, 8730, 169, 114, 97, 116, 105, 111, 110, 32, 100, 105, 114, 101, 99, 116>>}

\* buildSalesChannelFilter of topPartners.ts
buildSalesChannelFilterOfPartners(f, channel) ==
    IF channel = "all" THEN TRUE
    ELSE IF channel = "indirect"
    THEN f.order_type # NullText /\ f.order_type \in INDIRECT_ORDER_TYPES_OfPartners
    ELSE f.order_type # NullText /\ f.order_type \notin INDIRECT_ORDER_TYPES_OfPartners

OperationDirect ==
    <<79, 112, 233, 114, 97, 116, 105, 111, 110, 32, 100, 105, 114, 101, 99, 116>>

\* The order types a transaction may carry: the two names of the business
\* rule, their spelling in topPartners.ts, other names, none.
OrderTypes ==
    INDIRECT_ORDER_TYPES \cup INDIRECT_ORDER_TYPES_OfPartners
        \cup {NullText, <<>>, Stock, toLowerCase(PermanentDirect), PermanentDirect \o <<32>>,
              <<79, 112, 101, 114, 97, 116, 105, 111, 110, 32, 100, 105, 114, 101, 99, 116>>,
              <<68, 105, 114, 101, 99, 116>>, <<80, 101, 114, 109, 97, 110, 101, 110, 116>>}

InitChannels ==
    /\ tz = 0
    /\ chOrderType \in OrderTypes
    /\ chChannel \in {"all", "direct", "indirect"}
    /\ chPartners = "unasked"
    /\ chResponsibles = "unasked"
    /\ IdleOld /\ IdleSubMonths /\ IdleNormalizers /\ IdleUploads /\ IdleTopPartners /\ IdleChannelSums /\ IdleWidgets

OutsideChannels == <<varsOld, varsSb, varsNz, varsUp, varsTp, varsCs, varsWg>>

Kept(b) == IF b THEN "kept" ELSE "dropped"

FilterOfPartners ==
    /\ chPartners = "unasked"
    /\ chPartners' = Kept(buildSalesChannelFilterOfPartners([order_type |-> chOrderType], chChannel))
    /\ UNCHANGED <<chOrderType, chChannel, chResponsibles>>
    /\ UNCHANGED OutsideChannels

FilterOfResponsibles ==
    /\ chResponsibles = "unasked"
    /\ chResponsibles' = Kept(buildSalesChannelFilter([order_type |-> chOrderType], chChannel))
    /\ UNCHANGED <<chOrderType, chChannel, chPartners>>
    /\ UNCHANGED OutsideChannels

NextChannels == FilterOfPartners \/ FilterOfResponsibles

SpecChannels == InitChannels /\ [][NextChannels]_vars

\* C25: top-partners and commercial-responsibles put every transaction into
\* the same sales channel: for every order type and every channel asked for,
\* the filter of the one keeps the transaction iff the filter of the other
\* does.
C25_SameChannelInBothViews ==
    (chPartners # "unasked" /\ chResponsibles # "unasked") => chPartners = chResponsibles

-----------------------------------------------------------------------------
(* Net margin: the series against the period totals (SpecNetMargin).        *)

SeriesMargin(series) == SumSeq([i \in DOMAIN series |-> series[i].total_net_margin_eur], 1)

SeriesKeys(series) == {series[i].key : i \in DOMAIN series}

\* C26: in the net-margin payload, whatever the store holds (rows delivered
\* after now included), the margins of monthly_series_12m add up to the total
\* of last_12_months, those of daily_series_3m and of weekly_series_3m to the
\* total of last_3_months, those of daily_series_1m and of weekly_series_1m
\* to the total of last_1_month, and no series has a key outside the range
\* it was seeded with.
C26_SeriesAddUpToPeriodTotals ==
    nmPayload # NoPayload =>
        LET w == Windows(now)
            p == nmPayload.periods
        IN  /\ SeriesMargin(nmPayload.monthly_series_12m) = p.last_12_months.total_net_margin_eur
            /\ SeriesMargin(nmPayload.daily_series_3m) = p.last_3_months.total_net_margin_eur
            /\ SeriesMargin(nmPayload.weekly_series_3m) = p.last_3_months.total_net_margin_eur
            /\ SeriesMargin(nmPayload.daily_series_1m) = p.last_1_month.total_net_margin_eur
            /\ SeriesMargin(nmPayload.weekly_series_1m) = p.last_1_month.total_net_margin_eur
            /\ SeriesKeys(nmPayload.monthly_series_12m)
                  \subseteq SeqRange(generateMonthRangeInclusive(w.start12, w.now))
            /\ SeriesKeys(nmPayload.daily_series_3m)
                  \subseteq SeqRange(generateDateRangeInclusive(w.start3, w.now))
            /\ SeriesKeys(nmPayload.weekly_series_3m)
                  \subseteq SeqRange(generateWeekRangeInclusive(w.start3, w.now))
            /\ SeriesKeys(nmPayload.daily_series_1m)
                  \subseteq SeqRange(generateDateRangeInclusive(w.start1, w.now))
            /\ SeriesKeys(nmPayload.weekly_series_1m)
                  \subseteq SeqRange(generateWeekRangeInclusive(w.start1, w.now))

-----------------------------------------------------------------------------
(* Specification SpecTopPartners: buildTopPartnersPayload with its per-year *)
(* breakdown, over stores of more raw partner names than the aggregate      *)
(* query returns.  A fact row has its partner column, its quantity, its     *)
(* sales value under the channel's expression and the year of its delivery. *)

TopFact(partner, quantity, sales, year) ==
    [partner |-> partner, quantity |-> quantity, sales |-> sales, year |-> year]

\* "a1", "b1", "c1", "e1", the variants "du" and "DU" of one partner over two
\* years, a delivery of the year 1899, and "c1" followed by a tab.
TopFacts ==
    {TopFact(<<97, 49>>, 1, 10, 2023), TopFact(<<98, 49>>, 1, 9, 2023),
     TopFact(<<99, 49>>, 1, 8, 2024), TopFact(<<101, 49>>, 1, 7, 2023),
     TopFact(<<100, 117>>, 3, 6, 2023), TopFact(<<68, 85>>, 3, 6, 2024),
     TopFact(<<100, 117>>, 1, 1, 2024), TopFact(<<98, 49>>, 1, 1, 1899),
     TopFact(<<99, 49, 9>>, 1, 1, 2023)}

normalizeYearValueOfPartners(value) ==
    IF value.kind = "null" THEN Null
    ELSE IF inAllowedYearRange(value.n) THEN Number(value.n) ELSE Null

\* variantNames: the variants of every bucket, trimmed, without the empty.
VariantNames(bucketMap) ==
    UNION {{StripEnds(v, JsWhiteSpace) : v \in bucketMap[k].variants} : k \in DOMAIN bucketMap}
        \ {<<>>}

\* The second query: one row per TRIM(partner) among variantNames and year.
YearPairs(store, variantNames) ==
    {p \in (PartnerGroups(store) \cap variantNames) \X {f.year : f \in store} :
        \E f \in FactsOf(store, p[1]) : f.year = p[2]}

YearRow(name, year, sums) ==
    [partner_name |-> name, year |-> Number(year),
     total_quantity |-> Number(sums.total_quantity), total_sales |-> Number(sums.total_sales)]

YearRows(store, variantNames) ==
    {YearRow(p[1], p[2], SumOfFacts({f \in FactsOf(store, p[1]) : f.year = p[2]})) :
        p \in YearPairs(store, variantNames)}

\* The rows of the second query that reach the bucket of a key: those with
\* a name, that key and a year.
YearRowsOfBucket(yearRows, canonicalKey) ==
    {r \in yearRows :
        /\ normalizePartnerName(r.partner_name) # <<>>
        /\ canonicalizePartnerKey(normalizePartnerName(r.partner_name)) = canonicalKey
        /\ normalizeYearValueOfPartners(r.year) # Null}

\* bucket.years, sorted by year.
YearsOfBucket(yearRows, canonicalKey) ==
    LET mine == YearRowsOfBucket(yearRows, canonicalKey)
        years == SortAsc({normalizeYearValueOfPartners(r.year).n : r \in mine})
        of(y) == {r \in mine : normalizeYearValueOfPartners(r.year).n = y}
    IN  [i \in DOMAIN years |->
            [year |-> years[i],
             totalQuantity |->
                SumOver(of(years[i]), [r \in of(years[i]) |-> toFiniteNumber(r.total_quantity, 0)]),
             totalSalesValue |->
                SumOver(of(years[i]), [r \in of(years[i]) |-> toFiniteNumber(r.total_sales, 0)])]]

TopPartner(bucket, index, years) ==
    [rank |-> index, partnerName |-> bucket.displayName,
     totalQuantity |-> bucket.totalQuantity, totalSalesValue |-> bucket.totalSalesValue,
     years |-> years]

buildTopPartnersPayload(store, limitOption, orderBy) ==
    LET limit == normalizeLimit(limitOption)
        topPartnersRaw == topPartnersQuery(store, orderBy, RawLimit(limit))
        bucketMap == FoldRows(topPartnersRaw, 1, <<>>)
        yearRows == YearRows(store, VariantNames(bucketMap))
        topBuckets == Take(SortedBuckets({bucketMap[k] : k \in DOMAIN bucketMap}, orderBy), limit)
        partners == [i \in DOMAIN topBuckets |->
                        TopPartner(topBuckets[i], i,
                                   YearsOfBucket(yearRows, topBuckets[i].canonicalKey))]
    IN  [done |-> TRUE,
         partners |-> partners,
         availableYears |->
            SortAsc(UNION {{partners[i].years[j].year : j \in DOMAIN partners[i].years} :
                            i \in DOMAIN partners}),
         totals |-> [quantity |-> SumSeq([i \in DOMAIN partners |-> partners[i].totalQuantity], 1),
                     salesValue |->
                        SumSeq([i \in DOMAIN partners |-> partners[i].totalSalesValue], 1)],
         metadata |-> [limit |-> limit, orderBy |-> orderBy]]

TopLimits == {Number(1), Number(2)}

InitTopPartners ==
    /\ tz = 0
    /\ tpStore \in SUBSET TopFacts
    /\ tpLimit \in TopLimits
    /\ tpOrderBy \in OrderByOptions
    /\ tpResult = NoResult
    /\ IdleOld /\ IdleSubMonths /\ IdleNormalizers /\ IdleUploads /\ IdleChannels /\ IdleChannelSums /\ IdleWidgets

OutsideTopPartners == <<varsOld, varsSb, varsNz, varsUp, varsCh, varsCs, varsWg>>

AnswerTopPartners ==
    /\ tpResult = NoResult
    /\ tpResult' = buildTopPartnersPayload(tpStore, tpLimit, tpOrderBy)
    /\ UNCHANGED <<tpStore, tpLimit, tpOrderBy>>
    /\ UNCHANGED OutsideTopPartners

NextTopPartners == AnswerTopPartners

SpecTopPartners == InitTopPartners /\ [][NextTopPartners]_vars

\* The canonical partners of the store and what all their fact rows add up
\* to.
KeyOfFact(f) == canonicalizePartnerKey(normalizePartnerName(StripEnds(f.partner, SqlSpace)))

CanonicalPartners == {KeyOfFact(f) : f \in tpStore} \ {<<>>}

TrueTotals(key) == SumOfFacts({f \in tpStore : KeyOfFact(f) = key})

Metric(sums) == IF tpOrderBy = "quantity" THEN sums.total_quantity ELSE sums.total_sales

\* C27: the list has min(limit, number of canonical partners) entries,
\* ranked 1..k, each carrying the sums of all fact rows of all name variants
\* of its partner, and no partner left out has a larger total than one
\* returned.
C27_TrueTopPartners ==
    tpResult # NoResult =>
        LET partners == tpResult.partners
            keyOf(i) == canonicalizePartnerKey(partners[i].partnerName)
        IN  /\ Len(partners) = Min2(tpLimit.n, Cardinality(CanonicalPartners))
            /\ \A i \in DOMAIN partners :
                  /\ partners[i].rank = i
                  /\ keyOf(i) \in CanonicalPartners
                  /\ partners[i].totalQuantity
                        = TrueTotals(keyOf(i)).total_quantity
                  /\ partners[i].totalSalesValue
                        = TrueTotals(keyOf(i)).total_sales
                  /\ \A k \in CanonicalPartners :
                        k \notin {keyOf(j) : j \in DOMAIN partners} =>
                            Metric(TrueTotals(k)) <= Metric(TrueTotals(keyOf(i)))

\* C28: for every partner returned, the quantities and the sales values of
\* its years add up to its totals and its years ascend strictly;
\* availableYears is the ascending union of the years of the partners
\* returned.
C28_YearsAddUpToTotals ==
    tpResult # NoResult =>
        /\ \A i \in DOMAIN tpResult.partners :
              LET p == tpResult.partners[i]
              IN  /\ SumSeq([j \in DOMAIN p.years |-> p.years[j].totalQuantity], 1)
                        = p.totalQuantity
                  /\ SumSeq([j \in DOMAIN p.years |-> p.years[j].totalSalesValue], 1)
                        = p.totalSalesValue
                  /\ \A j \in 1..(Len(p.years) - 1) : p.years[j].year < p.years[j + 1].year
        /\ StrictlyIncreasing(tpResult.availableYears)
        /\ SeqRange(tpResult.availableYears)
              = UNION {{tpResult.partners[i].years[j].year :
                            j \in DOMAIN tpResult.partners[i].years} :
                        i \in DOMAIN tpResult.partners}

-----------------------------------------------------------------------------
(* Specification SpecChannelSums: commercial-responsibles answered for the  *)
(* three sales channels over one store, with the same year filter and no    *)
(* limit.                                                                   *)

\* Transactions of the responsibles "An" (also entered as "An " and as "An"
\* with a tab) and "Bo", of direct and of both indirect order types, with
\* both value columns filled, over two years.
ChannelFacts ==
    {Transaction(1, CatA, FamF, <<49>>, An, Stock, Decimal(5), 3, 10,
                 Number(Hour(2023, 1, 10, 9))),
     Transaction(2, CatA, FamF, <<50>>, AnSpace, PermanentDirect, Decimal(2), 20, 4,
                 Number(Hour(2023, 2, 10, 9))),
     Transaction(3, CatA, FamF, <<51>>, Bo, OperationDirect, Null, 7, 0,
                 Number(Hour(2023, 1, 20, 9))),
     Transaction(4, CatA, FamF, <<51>>, An, PermanentDirect, Decimal(3), 6, 1,
                 Number(Hour(2024, 1, 1, 0))),
     Transaction(5, CatA, FamF, <<52>>, Bo, Stock, Decimal(-3), 5, 8,
                 Number(Hour(2023, 12, 31, 23))),
     Transaction(6, CatA, FamF, <<53>>, AnTab, Stock, Decimal(1), 0, 7,
                 Number(Hour(2023, 3, 5, 9)))}

SalesChannels == {"all", "direct", "indirect"}

InitChannelSums ==
    /\ tz = 0
    /\ csFacts \in SUBSET ChannelFacts
    /\ csYear \in YearFilters
    /\ csPayloads = [channel \in SalesChannels |-> NoResult]
    /\ IdleOld /\ IdleSubMonths /\ IdleNormalizers /\ IdleUploads /\ IdleChannels
    /\ IdleTopPartners /\ IdleWidgets

OutsideChannelSums == <<varsOld, varsSb, varsNz, varsUp, varsCh, varsTp, varsWg>>

YearOption(year) == IF year = AllYears THEN Null ELSE year

AnswerChannel ==
    \E channel \in SalesChannels :
        /\ csPayloads[channel] = NoResult
        /\ LET o == CommercialOptions(channel, YearOption(csYear), "yearly", "sales", Null)
           IN  csPayloads' = [csPayloads EXCEPT ![channel] =
                   buildCommercialResponsiblesPayload(CommercialQueries(csFacts, o), csFacts, o)]
        /\ UNCHANGED <<csFacts, csYear>>
        /\ UNCHANGED OutsideChannelSums

NextChannelSums == AnswerChannel

SpecChannelSums == InitChannelSums /\ [][NextChannelSums]_vars

AllAnswered == \A channel \in SalesChannels : csPayloads[channel] # NoResult

NamesOf(payload) == {payload.rows[i].commercialResponsible : i \in DOMAIN payload.rows}

RowsNamed(payload, name) ==
    {i \in DOMAIN payload.rows : payload.rows[i].commercialResponsible = name}

\* The totals of a responsible in a payload, 0 if the payload has no row of
\* that name.
SalesValueOf(payload, name) ==
    SumOver(RowsNamed(payload, name), [i \in DOMAIN payload.rows |-> payload.rows[i].totalSalesValue])

QuantityIn(payload, name) ==
    SumOver(RowsNamed(payload, name), [i \in DOMAIN payload.rows |-> payload.rows[i].totalQuantity])

\* C29: with no limit and the same year filter, for every responsible the
\* totalSalesValue under "all" is the sum of those under "direct" and under
\* "indirect" (0 where the name is absent), and likewise the totalQuantity.
C29_AllIsDirectPlusIndirect ==
    AllAnswered =>
        \A name \in UNION {NamesOf(csPayloads[channel]) : channel \in SalesChannels} :
            /\ SalesValueOf(csPayloads["all"], name)
                  = SalesValueOf(csPayloads["direct"], name)
                        + SalesValueOf(csPayloads["indirect"], name)
            /\ QuantityIn(csPayloads["all"], name)
                  = QuantityIn(csPayloads["direct"], name)
                        + QuantityIn(csPayloads["indirect"], name)

\* C29, its case: a responsible with sales in both channels, whose total under
\* "all" is neither part alone.
C29_ResponsibleInBothChannels ==
    /\ AllAnswered
    /\ \E name \in NamesOf(csPayloads["all"]) :
          /\ SalesValueOf(csPayloads["direct"], name) > 0
          /\ SalesValueOf(csPayloads["indirect"], name) > 0
          /\ QuantityIn(csPayloads["direct"], name) > 0
          /\ QuantityIn(csPayloads["indirect"], name) > 0
          /\ SalesValueOf(csPayloads["all"], name)
                = SalesValueOf(csPayloads["direct"], name)
                      + SalesValueOf(csPayloads["indirect"], name)

-----------------------------------------------------------------------------
(* Specification SpecWidgets: an analytics widget (the most-sold-products   *)
(* table, the top-partners visual or the commercial-responsibles visual),   *)
(* its filter and refresh controls, the requests its effect has issued and  *)
(* their responses arriving in any order.  A request is numbered by its     *)
(* position in wgRequests; the display names the request whose rows or      *)
(* payload and whose error it shows (0 for none).                           *)

MaxRequests == 4

Widgets == {"most-sold-products", "top-partners", "commercial-responsibles"}

\* The values of the filter the effect depends on; the server answers the
\* third under the name of the first (a category spelled "ALL" is "all").
WidgetFilters == {1, 2, 3}

EchoedFilter(filter) == IF filter = 3 THEN 1 ELSE filter

\* A variant in which no response is discarded, for comparison.
NeverDiscarded(request) == FALSE

\* if (cancelled) return / if (controller.signal.aborted) return
Discarded(request) == request.cancelled

WidgetRequest(filter) ==
    [filter |-> filter, cancelled |-> FALSE, settled |-> FALSE, ok |-> FALSE,
     applied |-> FALSE, wasLatest |-> FALSE, order |-> 0]

InitWidgets ==
    /\ tz = 0
    /\ wgKind \in Widgets
    /\ wgFilter = 1
    /\ wgRequests = <<>>
    /\ wgDisplay = [data |-> 0, error |-> 0, loading |-> FALSE]
    /\ IdleOld /\ IdleSubMonths /\ IdleNormalizers /\ IdleUploads /\ IdleChannels
    /\ IdleTopPartners /\ IdleChannelSums

OutsideWidgets == <<varsOld, varsSb, varsNz, varsUp, varsCh, varsTp, varsCs>>

\* The cleanup of the effect of the last render.
CleanedUp(requests) ==
    IF requests = <<>> THEN requests
    ELSE [requests EXCEPT ![Len(requests)].cancelled = TRUE]

\* A run of the effect: the cleanup of the previous run, setLoading(true),
\* setError(null) and the fetch.
RunEffect(requests, display, filter) ==
    [requests |-> Append(CleanedUp(requests), WidgetRequest(filter)),
     display |-> [display EXCEPT !.loading = TRUE, !.error = 0]]

Mount ==
    /\ wgRequests = <<>>
    /\ wgRequests' = RunEffect(wgRequests, wgDisplay, wgFilter).requests
    /\ wgDisplay' = RunEffect(wgRequests, wgDisplay, wgFilter).display
    /\ UNCHANGED <<wgKind, wgFilter>>
    /\ UNCHANGED OutsideWidgets

ChangeFilter ==
    \E filter \in WidgetFilters \ {wgFilter} :
        /\ wgRequests # <<>>
        /\ Len(wgRequests) < MaxRequests
        /\ wgFilter' = filter
        /\ wgRequests' = RunEffect(wgRequests, wgDisplay, filter).requests
        /\ wgDisplay' = RunEffect(wgRequests, wgDisplay, filter).display
        /\ UNCHANGED wgKind
        /\ UNCHANGED OutsideWidgets

\* The refresh button, disabled while loading.
Refresh ==
    /\ wgRequests # <<>>
    /\ ~wgDisplay.loading
    /\ Len(wgRequests) < MaxRequests
    /\ wgRequests' = RunEffect(wgRequests, wgDisplay, wgFilter).requests
    /\ wgDisplay' = RunEffect(wgRequests, wgDisplay, wgFilter).display
    /\ UNCHANGED <<wgKind, wgFilter>>
    /\ UNCHANGED OutsideWidgets

Settled(requests, id, ok, applied) ==
    [requests EXCEPT ![id].settled = TRUE, ![id].ok = ok, ![id].applied = applied,
                     ![id].wasLatest = (id = Len(requests)),
                     ![id].order = Cardinality({i \in DOMAIN requests : requests[i].settled}) + 1]

\* What the handlers write when they are not discarded: the rows or the
\* payload on success; on failure the error, and in the two visuals
\* setPayload(null); then setLoading(false).
Written(display, kind, id, ok) ==
    [data |-> IF ok THEN id ELSE IF kind = "most-sold-products" THEN display.data ELSE 0,
     error |-> IF ok THEN display.error ELSE id,
     loading |-> FALSE]

\* The response of request id arrives, or its fetch fails.  The table also
\* sets its filters to those of the payload, which runs the effect again if
\* they differ.
Arrive ==
    \E id \in DOMAIN wgRequests, ok \in BOOLEAN :
        /\ ~wgRequests[id].settled
        /\ IF Discarded(wgRequests[id])
           THEN /\ wgRequests' = Settled(wgRequests, id, ok, FALSE)
                /\ UNCHANGED <<wgDisplay, wgFilter>>
           ELSE IF wgKind = "most-sold-products" /\ ok
                   /\ EchoedFilter(wgRequests[id].filter) # wgFilter
           THEN LET again == RunEffect(Settled(wgRequests, id, ok, TRUE),
                                       Written(wgDisplay, wgKind, id, ok),
                                       EchoedFilter(wgRequests[id].filter))
                IN  /\ Len(wgRequests) < MaxRequests
                    /\ wgFilter' = EchoedFilter(wgRequests[id].filter)
                    /\ wgRequests' = again.requests
                    /\ wgDisplay' = again.display
           ELSE /\ wgRequests' = Settled(wgRequests, id, ok, TRUE)
                /\ wgDisplay' = Written(wgDisplay, wgKind, id, ok)
                /\ UNCHANGED wgFilter
        /\ UNCHANGED wgKind
        /\ UNCHANGED OutsideWidgets

NextWidgets == Mount \/ ChangeFilter \/ Refresh \/ Arrive

SpecWidgets == InitWidgets /\ [][NextWidgets]_vars

LatestRequest == wgRequests[Len(wgRequests)]

\* C30: a response or an error of a request that a later request had
\* superseded when it arrived has written nothing; and once the request
\* issued last has settled, loading is false and the widget shows the data
\* of that request and no error, or the error of that request.
C30_OnlyLatestRequestShown ==
    /\ \A id \in DOMAIN wgRequests :
          (wgRequests[id].settled /\ wgRequests[id].applied) => wgRequests[id].wasLatest
    /\ (wgRequests # <<>> /\ LatestRequest.settled) =>
          /\ ~wgDisplay.loading
          /\ LatestRequest.ok => wgDisplay.data = Len(wgRequests) /\ wgDisplay.error = 0
          /\ ~LatestRequest.ok => wgDisplay.error = Len(wgRequests)

\* C30, its case: the response of a first request arrives, with data, after
\* the second request, issued on a filter change, has settled; the widget
\* still shows the data of the second.
C30_LateResponseOfSupersededRequest ==
    /\ Len(wgRequests) = 2
    /\ wgRequests[1].filter # wgRequests[2].filter
    /\ wgRequests[2].settled /\ wgRequests[2].ok /\ wgRequests[2].order = 1
    /\ wgRequests[1].settled /\ wgRequests[1].ok /\ wgRequests[1].order = 2
    /\ wgDisplay = [data |-> 2, error |-> 0, loading |-> FALSE]

=============================================================================
